---- MODULE Spec2Model ----
(***************************************************************************)
(* A model of the website generator backend (src/backend/app.py):          *)
(*   - the query refiner and the relevance scorer,                         *)
(*   - the image resolution pipeline (fetch_image and its two providers),  *)
(*   - the HTML post-processor (clean_code),                               *)
(*   - the persistence endpoints over the content root 'static'.           *)
(* Strings are sequences of atoms.  For queries an atom is a word or the   *)
(* blank " "; for paths an atom is a path segment; for documents an atom   *)
(* is a markup token.                                                      *)
(***************************************************************************)
EXTENDS Integers, Sequences, FiniteSets, TLC

VARIABLES
    \* refine_query called on its own
    rq_query, rq_page, rq_folder, rq_pc, rq_out,
    \* the configuration read from the environment
    PEXELS_API_KEY, PIXABAY_API_KEY,
    \* one call of fetch_image: its arguments, its position, its locals
    fi_query, fi_image_id, fi_page_name, fi_folder_name,
    fi_pc, fi_refined, fi_alternatives, fi_alt, fi_out,
    \* the provider search in progress (fetch_image_from_pexels / _pixabay)
    ps_provider, ps_query, ps_refined, ps_page, ps_attempt, ps_fallback, ps_result,
    \* the pages the search in progress has requested, in order
    h_pages,
    \* what the providers have been asked and have answered so far
    h_firstRelevant, h_allEmpty, h_requests,
    \* the initial Pexels search: the first candidate of its first page that
    \* is not empty, whether a candidate of it passed check_relevance
    h_initialFirst, h_initialHit,
    \* the file tree (directories; files and their bytes), the last
    \* persistence request and its response, the number of requests so far
    fs_dirs, fs_files, fs_req, fs_resp, fs_n,
    \* the last page save-page has stored, while no other write has followed
    h_saved,
    \* clean_code: the raw output, the page name, the position, the result
    \* of the first pass and of a second pass over that result
    cc_input, cc_page, cc_pc, cc_out1, cc_out2,
    \* check_relevance called on its own with two thresholds: the arguments,
    \* the position, the two results
    cr_tags, cr_keywords, cr_m1, cr_m2, cr_pc, cr_r1, cr_r2,
    \* one request to generate, voice-modification or check-address: the
    \* endpoint, the JSON body, the position of the handler, the parsed
    \* intent, the page name, the response
    ep_name, ep_req, ep_pc, ep_intent, ep_page_name, ep_resp,
    \* the calls of call_groq_api and its requests.post so far, the outcome
    \* of the last call
    llm_calls, llm_posts, llm_out,
    \* the document clean_code returned to the handler
    h_cleaned,
    \* one transcribe request: the upload, the position of the handler, whether
    \* temp_file_path and wav_path are set, the temporary files that exist,
    \* the recognition attempt, the response, the files the request created
    tr_req, tr_pc, tr_temp_file_path, tr_wav_path, tr_files, tr_attempt, tr_resp,
    h_created,
    \* the outcomes of the recognition attempts of the request, in order
    h_heard,
    \* two save-page requests for one page path: the code and the position of
    \* each, the bytes of the file, the status each has answered
    sv_code, sv_pc, sv_file, sv_status,
    \* the files before the last update-hierarchy request
    h_before,
    \* one add-image request: the submitted document, the document being
    \* rewritten, the position of the handler, the tags of the loop in
    \* progress and its index, the images list of the response
    ai_input, ai_code, ai_pc, ai_tags, ai_i, ai_images,
    \* how many times each <img> tag of the document has been rewritten
    h_rewrites,
    \* two signup requests: the JSON body and the position of each, its
    \* answer; the emails of the documents of the users collection
    su_req, su_pc, su_resp, su_users

rqVars == <<rq_query, rq_page, rq_folder, rq_pc, rq_out>>

fiArgs == <<PEXELS_API_KEY, PIXABAY_API_KEY, fi_query, fi_image_id,
            fi_page_name, fi_folder_name>>

psVars == <<ps_provider, ps_query, ps_refined, ps_page, ps_attempt, ps_fallback,
            ps_result, h_pages>>

hVars == <<h_firstRelevant, h_allEmpty, h_requests, h_initialFirst, h_initialHit>>

fiVars == <<fiArgs, fi_pc, fi_refined, fi_alternatives, fi_alt, fi_out, psVars, hVars>>

fsVars == <<fs_dirs, fs_files, fs_req, fs_resp, fs_n, h_saved>>

ccVars == <<cc_input, cc_page, cc_pc, cc_out1, cc_out2>>

crVars == <<cr_tags, cr_keywords, cr_m1, cr_m2, cr_pc, cr_r1, cr_r2>>

\* the parts of the model beside the first four
epVars == <<ep_name, ep_req, ep_pc, ep_intent, ep_page_name, ep_resp,
            llm_calls, llm_posts, llm_out, h_cleaned>>

trVars == <<tr_req, tr_pc, tr_temp_file_path, tr_wav_path, tr_files, tr_attempt,
            tr_resp, h_created, h_heard>>

svVars == <<sv_code, sv_pc, sv_file, sv_status>>

hiVars == <<h_before>>

aiVars == <<ai_input, ai_code, ai_pc, ai_tags, ai_i, ai_images, h_rewrites>>

suVars == <<su_req, su_pc, su_resp, su_users>>

lateVars == <<hiVars, aiVars, suVars>>

moreVars == <<crVars, epVars, trVars, svVars, lateVars>>

vars == <<rqVars, fiVars, fsVars, ccVars, moreVars>>

\* the variables an action of one part leaves alone
notRq == <<fiVars, fsVars, ccVars, moreVars>>
notFi == <<rqVars, fsVars, ccVars, moreVars>>
notFs == <<rqVars, fiVars, ccVars, moreVars>>
notCc == <<rqVars, fiVars, fsVars, moreVars>>
coreVars == <<rqVars, fiVars, fsVars, ccVars>>
notCr == <<coreVars, epVars, trVars, svVars, lateVars>>
notEp == <<coreVars, crVars, trVars, svVars, lateVars>>
notTr == <<coreVars, crVars, epVars, svVars, lateVars>>
notSv == <<coreVars, crVars, epVars, trVars, lateVars>>
midVars == <<crVars, epVars, trVars, svVars>>
notHi == <<rqVars, fiVars, ccVars, midVars, aiVars, suVars>>
notAi == <<coreVars, midVars, hiVars, suVars>>
notSu == <<coreVars, midVars, hiVars, aiVars>>

(***************************************************************************)
(* Python values                                                           *)
(***************************************************************************)
\* an optional string argument: None, or a string
None == [some |-> FALSE, str |-> <<>>]
Some(s) == [some |-> TRUE, str |-> s]

\* the truth value of an optional string: None and "" are false
Truthy(o) == o.some /\ Len(o.str) > 0

\* the outcome of a call: a returned value or a raised exception
Return(v) == [kind |-> "return", val |-> v, exc |-> "none"]
Raise(e) == [kind |-> "raise", val |-> <<>>, exc |-> e]
NotCalled == [kind |-> "pending", val |-> <<>>, exc |-> "none"]

(***************************************************************************)
(* Strings of words: str.lower, str.split, " ".join                        *)
(***************************************************************************)
\* str.lower on one atom
LowerWord(w) ==
    CASE w = "The" -> "the"
      [] w = "Apple" -> "apple"
      [] w = "Fruits" -> "fruits"
      [] w = "FRESH" -> "fresh"
      [] w = "Fresh" -> "fresh"
      [] w = "Add An Image" -> "add an image"
      [] OTHER -> w

\* str.lower
Lower(s) == [i \in 1..Len(s) |-> LowerWord(s[i])]

IsBlank(a) == a = " "

\* str.split(): the maximal runs of non-blank atoms (the strings of the model
\* never hold two adjacent words without a blank between them)
Split(s) == SelectSeq(s, LAMBDA a : ~IsBlank(a))

RECURSIVE Join(_)
\* " ".join(ws)
Join(ws) ==
    IF Len(ws) = 0 THEN <<>>
    ELSE IF Len(ws) = 1 THEN <<ws[1]>>
    ELSE <<ws[1], " ">> \o Join(Tail(ws))

RECURSIVE Dedup(_, _)
\* list(dict.fromkeys(ws)): first occurrences, in order
Dedup(ws, seen) ==
    IF Len(ws) = 0 THEN <<>>
    ELSE IF ws[1] \in seen THEN Dedup(Tail(ws), seen)
    ELSE <<ws[1]>> \o Dedup(Tail(ws), seen \cup {ws[1]})

\* ws[:n]
Take(ws, n) == SubSeq(ws, 1, IF Len(ws) < n THEN Len(ws) ELSE n)

Range(s) == {s[i] : i \in 1..Len(s)}

(***************************************************************************)
(* refine_query                                                            *)
(***************************************************************************)
stop_words == {"a", "an", "the", "with", "at", "in", "on", "of", "and", "page", "template"}

ContextKeys == {"fruits", "voyages", "technologie"}

context_keywords(k) ==
    CASE k = "fruits" -> <<"fruit", "fresh", "organic", "apple", "banana", "orange">>
      [] k = "voyages" -> <<"travel", "landscape", "destination", "tourist">>
      [] k = "technologie" -> <<"tech", "computer", "electronic", "device">>
      [] OTHER -> <<>>

\* the words of the query that are kept: lowercased, stop-words dropped
QueryWords(query) ==
    Lower(SelectSeq(Split(query), LAMBDA w : LowerWord(w) \notin stop_words))

\* name.lower().split()[0] raises IndexError on a name made of blanks only
FirstTokenRaises(name) == Truthy(name) /\ Len(Split(name.str)) = 0

\* the keywords a page or folder name contributes
ContextWords(name) ==
    IF ~Truthy(name) THEN <<>>
    ELSE LET key == Lower(Split(name.str))[1]
         IN IF key \in ContextKeys THEN context_keywords(key) ELSE <<>>

\* unique_words[:5]
MaxTokens == 5

\* refine_query(query, page_name, folder_name)
refine_query(query, page_name, folder_name) ==
    IF FirstTokenRaises(page_name) \/ FirstTokenRaises(folder_name)
    THEN Raise("IndexError")
    ELSE LET words == QueryWords(query) \o ContextWords(page_name)
                          \o ContextWords(folder_name)
             unique_words == Dedup(words, {})
         IN Return(Join(Take(unique_words, MaxTokens)))

(***************************************************************************)
(* Inputs of the refiner                                                   *)
(***************************************************************************)
MaxQueryWords == 2

QueryVocab == {"The", "Apple", "apple", "fresh", "page", "car"}

WordSeqs(n) == UNION {[1..k -> QueryVocab] : k \in 0..n}

\* queries: words joined by one blank, or with blanks around
Queries ==
    {Join(ws) : ws \in WordSeqs(MaxQueryWords)}
        \cup {<<" ">> \o Join(ws) \o <<" ">> : ws \in WordSeqs(1)}

Names ==
    {None, Some(<<>>), Some(<<" ">>), Some(<<"fruits">>),
     Some(<<"Fruits", " ", "page">>), Some(<<"voyages">>), Some(<<"misc">>)}

RqInit ==
    /\ rq_query \in Queries
    /\ rq_page \in Names
    /\ rq_folder \in Names
    /\ rq_pc = "call"
    /\ rq_out = NotCalled

RqIdle ==
    /\ rq_query = <<>>
    /\ rq_page = None
    /\ rq_folder = None
    /\ rq_pc = "idle"
    /\ rq_out = NotCalled

\* one call of refine_query
RefineQuery ==
    /\ rq_pc = "call"
    /\ rq_out' = refine_query(rq_query, rq_page, rq_folder)
    /\ rq_pc' = "done"
    /\ UNCHANGED <<rq_query, rq_page, rq_folder>>
    /\ UNCHANGED notRq

(***************************************************************************)
(* check_relevance                                                         *)
(***************************************************************************)
\* min_matches: int = 2
min_matches == 2

\* check_relevance with an exact count (matches = min_matches)
check_relevance_exact(tags, keywords, min) ==
    LET lowtags == {Lower(tags[i]) : i \in 1..Len(tags)}
        matches == Cardinality({i \in 1..Len(keywords) : Lower(keywords[i]) \in lowtags})
    IN matches = min

\* check_relevance with the comparison off by one (matches > min_matches)
check_relevance_strict(tags, keywords, min) ==
    LET lowtags == {Lower(tags[i]) : i \in 1..Len(tags)}
        matches == Cardinality({i \in 1..Len(keywords) : Lower(keywords[i]) \in lowtags})
    IN matches > min

\* check_relevance(tags, keywords, min_matches): tags and keywords are lists
\* of strings; a keyword counts when, lowercased, it equals a lowercased tag
check_relevance(tags, keywords, min) ==
    LET lowtags == {Lower(tags[i]) : i \in 1..Len(tags)}
        matches == Cardinality({i \in 1..Len(keywords) : Lower(keywords[i]) \in lowtags})
    IN matches >= min

\* the thresholds, the tags and the keywords check_relevance is called with
MaxThreshold == 3

MaxTags == 2

TagVocab == {<<"apple">>, <<"Apple">>, <<"FRESH">>, <<"car">>}

TagLists == UNION {[1..k -> TagVocab] : k \in 0..MaxTags}

CrInit ==
    /\ cr_tags \in TagLists
    /\ cr_keywords \in TagLists
    /\ cr_m1 \in 0..MaxThreshold
    /\ cr_m2 \in 0..MaxThreshold
    /\ cr_pc = "call"
    /\ cr_r1 = FALSE
    /\ cr_r2 = FALSE

CrIdle ==
    /\ cr_tags = <<>>
    /\ cr_keywords = <<>>
    /\ cr_m1 = 0
    /\ cr_m2 = 0
    /\ cr_pc = "idle"
    /\ cr_r1 = FALSE
    /\ cr_r2 = FALSE

\* check_relevance on the same tags and keywords with each threshold
CheckRelevance ==
    /\ cr_pc = "call"
    /\ cr_r1' = check_relevance(cr_tags, cr_keywords, cr_m1)
    /\ cr_r2' = check_relevance(cr_tags, cr_keywords, cr_m2)
    /\ cr_pc' = "done"
    /\ UNCHANGED <<cr_tags, cr_keywords, cr_m1, cr_m2>>
    /\ UNCHANGED notCr

\* C12: check_relevance is monotonic in min_matches: for thresholds
\* m1 <= m2, a true result with m2 implies a true result with m1.
C12_MonotonicThreshold ==
    (cr_pc = "done" /\ cr_m1 <= cr_m2 /\ cr_r2) => cr_r1

\* a call that is relevant with the larger of two different thresholds
C12_Witness ==
    /\ cr_pc = "done"
    /\ cr_m1 < cr_m2
    /\ cr_m2 >= min_matches
    /\ cr_r2
    /\ cr_r1

(***************************************************************************)
(* The two providers' payloads                                             *)
(***************************************************************************)
\* a photo (Pexels) or hit (Pixabay): its URL, its descriptive text (alt
\* for Pexels, tags for Pixabay), its author
NoCand == [url |-> "", text |-> <<>>, credit |-> ""]

\* the list of one-word strings of a list of words
Singletons(ws) == [i \in 1..Len(ws) |-> <<ws[i]>>]

RECURSIVE SplitOn(_, _)
\* str.split(sep) for a separator atom: the pieces between separators,
\* empty pieces included
SplitOn(s, sep) ==
    IF \A i \in 1..Len(s) : s[i] # sep THEN <<s>>
    ELSE LET k == CHOOSE i \in 1..Len(s) :
                      s[i] = sep /\ \A j \in 1..(i - 1) : s[j] # sep
         IN <<SubSeq(s, 1, k - 1)>> \o SplitOn(SubSeq(s, k + 1, Len(s)), sep)

\* Pexels: (photo.get('alt', '') + ' ' + photo.get('description', '')).lower().split()
PexelsTags(photo) == Singletons(Split(Lower(photo.text \o <<" ">> \o <<>>)))

\* Pixabay: hit.get('tags', '').split(', ')
PixabayTags(hit) == SplitOn(hit.text, ", ")

TagsOf(provider, cand) ==
    IF provider = "Pexels" THEN PexelsTags(cand) ELSE PixabayTags(cand)

\* the success result built from a candidate
ResultOf(provider, cand) ==
    [url |-> cand.url,
     attribution |-> <<"Photo by", cand.credit, "on", provider>>,
     source |-> provider]

\* return {"url": "", "source": ""}
EmptyResult == [url |-> "", source |-> ""]

\* the None a provider search returns when it saw no candidate
NoResult == [url |-> "None", source |-> "None"]

PexelsPhotos ==
    {[url |-> "pexels/1", text |-> <<"FRESH", " ", "Apple">>, credit |-> "ann"],
     [url |-> "pexels/2", text |-> <<"car">>, credit |-> "bob"],
     [url |-> "pexels/3", text |-> <<"apple", " ", "produce">>, credit |-> "cyd"]}

PixabayHits ==
    {[url |-> "pixabay/1", text |-> <<"apple", ", ", "Fresh">>, credit |-> "dan"],
     [url |-> "pixabay/2", text |-> <<"fresh", " ", "apple">>, credit |-> "eve"],
     [url |-> "pixabay/3", text |-> <<"car">>, credit |-> "fay"]}

\* the most candidates one answer holds in the model (the code asks per_page = 3)
MaxPerPage == 2

Injective(f) == \A i, j \in DOMAIN f : f[i] = f[j] => i = j

Pages(pool) ==
    UNION {{f \in [1..k -> pool] : Injective(f)} : k \in 0..MaxPerPage}

\* what one request can produce: a failure (HTTP 4xx/5xx, transport error,
\* unreadable body), or a page of candidates
Responses(provider) ==
    {[ok |-> FALSE, items |-> <<>>]}
        \cup {[ok |-> TRUE, items |-> p] :
                p \in Pages(IF provider = "Pexels" THEN PexelsPhotos ELSE PixabayHits)}

(***************************************************************************)
(* generate_alternative_queries                                            *)
(***************************************************************************)
term_associations(k) ==
    CASE k = "fruits" -> <<<<"produce">>, <<"fresh", " ", "food">>, <<"healthy", " ", "snack">>>>
      [] k = "voyages" -> <<<<"vacation">>, <<"tourism">>, <<"adventure">>>>
      [] k = "technologie" -> <<<<"gadget">>, <<"innovation">>, <<"digital">>>>
      [] OTHER -> <<>>

\* page_name or folder_name or ""
FirstTruthy(page_name, folder_name) ==
    IF Truthy(page_name) THEN page_name.str
    ELSE IF Truthy(folder_name) THEN folder_name.str
    ELSE <<>>

\* generate_alternative_queries with the base query listed twice
generate_alternative_queries_twice(base_query, page_name, folder_name) ==
    LET context == FirstTruthy(page_name, folder_name)
        tokens == Split(Lower(context))
    IN IF Len(tokens) = 0 THEN Raise("IndexError")
       ELSE Return(<<base_query, base_query>> \o term_associations(tokens[1]))

\* generate_alternative_queries(base_query, page_name, folder_name); the retry
\* decorator re-raises at once any exception that is no HTTPError
generate_alternative_queries(base_query, page_name, folder_name) ==
    LET context == FirstTruthy(page_name, folder_name)
        tokens == Split(Lower(context))
    IN IF Len(tokens) = 0 THEN Raise("IndexError")
       ELSE Return(<<base_query>> \o term_associations(tokens[1]))

(***************************************************************************)
(* fetch_image_from_pexels / fetch_image_from_pixabay                      *)
(***************************************************************************)
\* max_attempts: int = 3
max_attempts == 3

\* int(s) on the last '_'-separated piece of an image id
IsDecimal(seg) == seg \in {"0", "1", "2"}

IntOf(seg) == CASE seg = "0" -> 0 [] seg = "1" -> 1 [] seg = "2" -> 2 [] OTHER -> 0

KeySet(provider) ==
    IF provider = "Pexels" THEN PEXELS_API_KEY ELSE PIXABAY_API_KEY

\* keywords = refined_query.split()
Keywords(refined) == Singletons(Split(refined))

\* the first candidate of a page that passes check_relevance, or NoCand
FirstRelevant(provider, items, keywords) ==
    LET hits == {i \in 1..Len(items) :
                    check_relevance(TagsOf(provider, items[i]), keywords, min_matches)}
    IN IF hits = {} THEN NoCand
       ELSE items[CHOOSE i \in hits : \A j \in hits : i <= j]

\* a candidate has at least n of the words of the refined query among the
\* words of its descriptive text, compared without regard to case
HasKeywords(cand, refined, n) ==
    LET words == {LowerWord(a) : a \in Range(cand.text) \ {" ", ", "}}
    IN Cardinality({w \in Range(Split(refined)) : LowerWord(w) \in words}) >= n

\* the first candidate of a page with two refined keywords, or NoCand
FirstWithKeywords(items, refined) ==
    LET hits == {i \in 1..Len(items) : HasKeywords(items[i], refined, 2)}
    IN IF hits = {} THEN NoCand
       ELSE items[CHOOSE i \in hits : \A j \in hits : i <= j]

Last(s) == s[Len(s)]

\* "page": page, the base page asked at every attempt
RequestedPageFixed(page, attempt) == page

\* "page": page + attempt
RequestedPage(page, attempt) == page + attempt

\* the prologue of a provider search, up to its first request: the API key
\* check, the second refinement, the base page
EnterSearch(provider, query) ==
    LET r == refine_query(query, None, None)
    IN IF ~KeySet(provider)
       THEN /\ fi_out' = Raise("ApiKeyNotSet")
            /\ fi_pc' = "done"
            /\ UNCHANGED psVars
       ELSE IF r.kind = "raise"
       THEN /\ fi_out' = r
            /\ fi_pc' = "done"
            /\ UNCHANGED psVars
       ELSE IF ~IsDecimal(Last(fi_image_id))
       THEN /\ fi_out' = Raise("ValueError")
            /\ fi_pc' = "done"
            /\ UNCHANGED psVars
       ELSE /\ ps_provider' = provider
            /\ ps_query' = query
            /\ ps_refined' = r.val
            /\ ps_page' = IntOf(Last(fi_image_id)) + 1
            /\ ps_attempt' = 0
            /\ ps_fallback' = NoCand
            /\ ps_result' = NoResult
            /\ h_pages' = <<>>
            /\ fi_pc' = "attempt"
            /\ UNCHANGED fi_out

(***************************************************************************)
(* fetch_image                                                             *)
(***************************************************************************)
\* fetch_image is entered: the query is refined with its context and the
\* initial Pexels search starts
FetchImageCall ==
    /\ fi_pc = "call"
    /\ LET r == refine_query(fi_query, fi_page_name, fi_folder_name)
       IN IF r.kind = "raise"
          THEN /\ fi_out' = r
               /\ fi_pc' = "done"
               /\ UNCHANGED <<fi_refined, psVars>>
          ELSE /\ fi_refined' = r.val
               /\ EnterSearch("Pexels", r.val)
    /\ UNCHANGED <<fiArgs, fi_alternatives, fi_alt, hVars>>
    /\ UNCHANGED notFi

\* one iteration of a provider's while loop: one request for page
\* ps_page + ps_attempt and the scan of its answer
SearchAttempt ==
    /\ fi_pc = "attempt"
    /\ ps_attempt < max_attempts
    /\ \E resp \in Responses(ps_provider) :
         LET items == resp.items
             hit == FirstRelevant(ps_provider, items, Keywords(ps_refined))
         IN /\ IF ~resp.ok \/ Len(items) = 0
               THEN /\ ps_attempt' = ps_attempt + 1
                    /\ UNCHANGED <<ps_fallback, ps_result, fi_pc>>
               ELSE /\ ps_fallback' = IF ps_fallback = NoCand THEN items[1] ELSE ps_fallback
                    /\ IF hit # NoCand
                       THEN /\ ps_result' = ResultOf(ps_provider, hit)
                            /\ fi_pc' = "returned"
                            /\ UNCHANGED ps_attempt
                       ELSE /\ ps_attempt' = ps_attempt + 1
                            /\ UNCHANGED <<ps_result, fi_pc>>
            /\ h_allEmpty' = (h_allEmpty /\ resp.ok /\ Len(items) = 0)
            /\ h_initialFirst' =
                 IF fi_alt = 0 /\ h_initialFirst = NoCand /\ resp.ok /\ Len(items) > 0
                 THEN items[1] ELSE h_initialFirst
            /\ h_initialHit' =
                 (h_initialHit \/ (fi_alt = 0 /\ resp.ok /\ hit # NoCand))
            /\ h_firstRelevant' =
                 IF h_firstRelevant = NoCand /\ ps_provider = "Pexels" /\ ps_query = fi_refined
                 THEN FirstWithKeywords(items, fi_refined)
                 ELSE h_firstRelevant
    /\ h_requests' = h_requests + 1
    /\ h_pages' = Append(h_pages, RequestedPage(ps_page, ps_attempt))
    /\ UNCHANGED <<fiArgs, fi_refined, fi_alternatives, fi_alt, fi_out,
                   ps_provider, ps_query, ps_refined, ps_page>>
    /\ UNCHANGED notFi

\* the while loop ends without a relevant candidate: the fallback, or None
SearchExhausted ==
    /\ fi_pc = "attempt"
    /\ ps_attempt >= max_attempts
    /\ ps_result' = IF ps_fallback # NoCand THEN ResultOf(ps_provider, ps_fallback)
                    ELSE NoResult
    /\ fi_pc' = "returned"
    /\ UNCHANGED <<fiArgs, fi_refined, fi_alternatives, fi_alt, fi_out, hVars,
                   ps_provider, ps_query, ps_refined, ps_page, ps_attempt, ps_fallback,
                   h_pages>>
    /\ UNCHANGED notFi

\* fetch_image gets a search's result: it returns it, or goes on with the
\* alternatives (Pexels then Pixabay for each), or returns the empty result
FetchImageNext ==
    /\ fi_pc = "returned"
    /\ IF ps_result # NoResult
       THEN /\ fi_out' = Return(ps_result)
            /\ fi_pc' = "done"
            /\ UNCHANGED <<fi_alternatives, fi_alt, psVars>>
       ELSE IF fi_alt = 0
       THEN LET a == generate_alternative_queries(fi_refined, fi_page_name, fi_folder_name)
            IN IF a.kind = "raise"
               THEN /\ fi_out' = a
                    /\ fi_pc' = "done"
                    /\ UNCHANGED <<fi_alternatives, fi_alt, psVars>>
               ELSE /\ fi_alternatives' = a.val
                    /\ fi_alt' = 1
                    /\ EnterSearch("Pexels", a.val[1])
       ELSE IF ps_provider = "Pexels"
       THEN /\ EnterSearch("Pixabay", fi_alternatives[fi_alt])
            /\ UNCHANGED <<fi_alternatives, fi_alt>>
       ELSE IF fi_alt < Len(fi_alternatives)
       THEN /\ fi_alt' = fi_alt + 1
            /\ EnterSearch("Pexels", fi_alternatives[fi_alt + 1])
            /\ UNCHANGED fi_alternatives
       ELSE /\ fi_out' = Return(EmptyResult)
            /\ fi_pc' = "done"
            /\ UNCHANGED <<fi_alternatives, fi_alt, psVars>>
    /\ UNCHANGED <<fiArgs, fi_refined, hVars>>
    /\ UNCHANGED notFi

ImgQueries == {<<"fresh", " ", "Apple">>, <<"The", " ", "car">>, <<"apple">>}

ImgNames == {None, Some(<<" ">>), Some(<<"fruits">>), Some(<<"misc">>)}

\* image ids as their '_'-separated pieces
ImageIds == {<<"home", "0">>, <<"home", "bg", "1">>, <<"fruits", "folder">>}

FiInit ==
    /\ PEXELS_API_KEY \in BOOLEAN
    /\ PIXABAY_API_KEY \in BOOLEAN
    /\ fi_query \in ImgQueries
    /\ fi_image_id \in ImageIds
    /\ fi_page_name \in ImgNames
    /\ fi_folder_name \in ImgNames
    /\ fi_pc = "call"
    /\ fi_refined = <<>>
    /\ fi_alternatives = <<>>
    /\ fi_alt = 0
    /\ fi_out = NotCalled
    /\ ps_provider = "Pexels"
    /\ ps_query = <<>>
    /\ ps_refined = <<>>
    /\ ps_page = 0
    /\ ps_attempt = 0
    /\ ps_fallback = NoCand
    /\ ps_result = NoResult
    /\ h_pages = <<>>
    /\ h_firstRelevant = NoCand
    /\ h_allEmpty = TRUE
    /\ h_requests = 0
    /\ h_initialFirst = NoCand
    /\ h_initialHit = FALSE

FiIdle ==
    /\ PEXELS_API_KEY = TRUE
    /\ PIXABAY_API_KEY = TRUE
    /\ fi_query = <<>>
    /\ fi_image_id = <<"home", "0">>
    /\ fi_page_name = None
    /\ fi_folder_name = None
    /\ fi_pc = "idle"
    /\ fi_refined = <<>>
    /\ fi_alternatives = <<>>
    /\ fi_alt = 0
    /\ fi_out = NotCalled
    /\ ps_provider = "Pexels"
    /\ ps_query = <<>>
    /\ ps_refined = <<>>
    /\ ps_page = 0
    /\ ps_attempt = 0
    /\ ps_fallback = NoCand
    /\ ps_result = NoResult
    /\ h_pages = <<>>
    /\ h_firstRelevant = NoCand
    /\ h_allEmpty = TRUE
    /\ h_requests = 0
    /\ h_initialFirst = NoCand
    /\ h_initialHit = FALSE

(***************************************************************************)
(* Claims about fetch_image (checked under SpecImage)                      *)
(***************************************************************************)
\* C1: every call of fetch_image returns (it does not raise) a result whose
\* url is empty if and only if its source is empty.
C1_UrlIffSource ==
    (fi_pc = "done" /\ PEXELS_API_KEY /\ PIXABAY_API_KEY) =>
        /\ fi_out.kind = "return"
        /\ (fi_out.val.url = "") <=> (fi_out.val.source = "")

\* C2: if a candidate of a page attempted against Pexels for the refined
\* query has at least 2 of the refined keywords among its tags, fetch_image
\* returns the first such candidate (page order, then in-page order), not
\* the first-seen fallback candidate.
C2_FirstRelevantReturned ==
    (fi_pc = "done" /\ h_firstRelevant # NoCand) =>
        fi_out = Return(ResultOf("Pexels", h_firstRelevant))

\* C2 happens: a relevant candidate was found on a later page, after another
\* candidate had been kept as the fallback, and fetch_image has returned.
C2_Witness ==
    /\ fi_pc = "done"
    /\ h_firstRelevant # NoCand
    /\ ps_fallback # NoCand
    /\ ps_fallback # h_firstRelevant
    /\ ps_attempt > 0
    /\ fi_out.kind = "return"

\* C3: when every request to both providers is answered with an empty
\* result set, fetch_image returns exactly {url: "", source: ""}, whatever
\* the query, image id, page name and folder name (absent ones included).
C3_EmptySentinel ==
    (fi_pc = "done" /\ PEXELS_API_KEY /\ PIXABAY_API_KEY
        /\ h_requests > 0 /\ h_allEmpty) =>
        fi_out = Return(EmptyResult)

\* C4: a provider failure (an absent API key included) counts as an attempt
\* without results and never reaches the caller of fetch_image; the empty
\* result is returned only once every attempt of the last search is used up
\* and no fallback candidate was seen.
C4_ProviderFailureContained ==
    fi_pc = "done" =>
        /\ fi_out.exc # "ApiKeyNotSet"
        /\ fi_out = Return(EmptyResult) =>
              /\ ps_fallback = NoCand
              /\ ps_attempt = max_attempts
              /\ ps_provider = "Pixabay"
              /\ fi_alt = Len(fi_alternatives)

\* the candidate of the providers' pools a returned result was built from
CandidateOf(result) ==
    CHOOSE c \in PexelsPhotos \cup PixabayHits : c.url = result.url

\* fetch_image has returned a candidate, and the candidate does not pass
\* check_relevance against the keywords of the search that produced it
NonRelevantReturned ==
    /\ fi_pc = "done"
    /\ fi_out.kind = "return"
    /\ fi_out.val.url # ""
    /\ ~check_relevance(TagsOf(fi_out.val.source, CandidateOf(fi_out.val)),
                        Keywords(ps_refined), min_matches)

\* C21: whenever the 3 pages attempted against Pexels for the initial refined
\* query hold no relevant candidate but at least one candidate, fetch_image
\* searches the alternative queries (Pexels, then Pixabay, for each) before
\* it returns any candidate that is not relevant.
C21_AlternativesBeforeFallback ==
    (NonRelevantReturned /\ h_initialFirst # NoCand /\ ~h_initialHit) =>
        /\ fi_alt >= 1
        /\ fi_alt = Len(fi_alternatives)
        /\ ps_provider = "Pixabay"

\* C22: whenever fetch_image returns a candidate that does not pass the
\* relevance check, it is the first candidate of the first page of the
\* initial Pexels search that is not empty; a candidate that is not relevant
\* and comes from an alternative query or from Pixabay is never returned.
C22_FallbackFromInitialSearch ==
    NonRelevantReturned =>
        /\ fi_out.val = ResultOf("Pexels", h_initialFirst)
        /\ fi_alt = 0
        /\ ps_provider = "Pexels"

\* a candidate was found relevant by the last attempt of the search
FoundRelevant ==
    fi_pc \in {"returned", "done"} /\ ps_result # NoResult /\ ps_attempt < max_attempts

\* C23: in each provider search whose base page is the integer of the last
\* '_'-separated piece of image_id plus 1, the pages requested are the base
\* page, the base page + 1 and the base page + 2 in that order, one per
\* attempt, also after an attempt that failed or returned nothing, and no
\* page is requested after the first attempt that yields a relevant
\* candidate.
C23_PagesInOrder ==
    /\ Len(h_pages) <= max_attempts
    /\ Len(h_pages) > 0 => ps_page = IntOf(Last(fi_image_id)) + 1
    /\ \A i \in 1..Len(h_pages) : h_pages[i] = ps_page + (i - 1)
    /\ Len(h_pages) = ps_attempt + (IF FoundRelevant THEN 1 ELSE 0)

\* a Pixabay search for an alternative asked the pages 2, 3 and 4 and found
\* its relevant candidate on the last one, and fetch_image has returned it
C23_Witness ==
    /\ fi_pc = "done"
    /\ ps_provider = "Pixabay"
    /\ ps_page = 2
    /\ h_pages = <<2, 3, 4>>
    /\ FoundRelevant
    /\ fi_out = Return(ps_result)

\* the most provider requests of one fetch_image call: the initial search,
\* then Pexels and Pixabay for the base query and its three associated terms
MaxProviderRequests == max_attempts + (1 + 3) * (2 * max_attempts)

\* the provider searches still to come after the one in progress, at most
SearchesLeft ==
    IF fi_alt = 0 THEN 2 * (1 + 3)
    ELSE 2 * (Len(fi_alternatives) - fi_alt) + (IF ps_provider = "Pexels" THEN 1 ELSE 0)

\* a bound on the steps fetch_image has still to make: a search is at most
\* max_attempts requests, the end of its loop and the test of its result
StepsLeft ==
    CASE fi_pc = "call" -> (max_attempts + 2) * (2 * (1 + 3) + 1) + 1
      [] fi_pc = "attempt" ->
            (max_attempts + 2) * SearchesLeft + (max_attempts - ps_attempt) + 2
      [] fi_pc = "returned" -> (max_attempts + 2) * SearchesLeft + 1
      [] OTHER -> 0

\* C29: every fetch_image call ends (it returns or raises) after at most 27
\* provider requests, whatever the providers answer, provided each request
\* returns or fails: no step takes the count beyond 27, and every step
\* lowers the number of steps that can still follow.
C29_BoundedRequests ==
    [][/\ MaxProviderRequests = 27
       /\ h_requests' <= MaxProviderRequests
       /\ StepsLeft' >= 0
       /\ StepsLeft' < StepsLeft]_vars

\* a call that made all 27 requests and returned the empty result
C29_Witness ==
    /\ fi_pc = "done"
    /\ h_requests = 27
    /\ fi_out = Return(EmptyResult)

(***************************************************************************)
(* Paths and the file tree                                                 *)
(* A path string is the sequence of its '/'-separated pieces; an absolute  *)
(* path starts with the piece "/".  A location is a normalised path: the   *)
(* working directory is <<>>, its parent <<"..">>.                         *)
(***************************************************************************)
\* static_dir = 'static'
static_dir == <<"static">>

IsAbs(p) == Len(p) > 0 /\ p[1] = "/"

\* os.path.join(a, b)
PathJoin(a, b) == IF IsAbs(b) THEN b ELSE a \o b

Front(s) == SubSeq(s, 1, Len(s) - 1)

\* the directory above a location
Parent(loc) ==
    IF loc = <<"/">> THEN loc
    ELSE IF \A i \in 1..Len(loc) : loc[i] = ".." THEN loc \o <<"..">>
    ELSE Front(loc)

RECURSIVE NormFrom(_, _)
\* the pieces of p applied one by one to the location cur, lexically
NormFrom(p, cur) ==
    IF Len(p) = 0 THEN cur
    ELSE IF p[1] \in {".", ""} THEN NormFrom(Tail(p), cur)
    ELSE IF p[1] = ".." THEN NormFrom(Tail(p), Parent(cur))
    ELSE NormFrom(Tail(p), cur \o <<p[1]>>)

\* the location a path names
Locate(p) == IF IsAbs(p) THEN NormFrom(Tail(p), <<"/">>) ELSE NormFrom(p, <<>>)

\* os.path.normpath(p): the working directory is written '.'
normpath(p) == IF Locate(p) = <<>> THEN <<".">> ELSE Locate(p)

\* os.path.dirname of a normalised path ('' for a single piece)
dirname(p) == IF p = <<"/">> THEN p ELSE Front(p)

\* str.startswith('static') on the path string: a test on characters, so a
\* first piece that merely begins with 'static' passes too
startswith_static(p) ==
    /\ Len(p) > 0
    /\ p[1] \in {"static", "static_evil"}

\* the location is in the content root
InRoot(loc) == Len(loc) > 0 /\ loc[1] = "static"

\* directories that exist whatever the program does
SystemDirs == {<<>>, <<"..">>, <<"..", "..">>, <<"/">>, <<"/", "etc">>}

IsDirIn(dirs, loc) == loc \in dirs \cup SystemDirs

RECURSIVE Resolvable(_, _, _)
\* the kernel can walk the pieces of p from cur: every piece but the last
\* is applied to an existing directory
Resolvable(p, cur, dirs) ==
    IF Len(p) = 0 THEN TRUE
    ELSE /\ IsDirIn(dirs, cur)
         /\ Resolvable(Tail(p), NormFrom(<<p[1]>>, cur), dirs)

Start(p) == IF IsAbs(p) THEN <<"/">> ELSE <<>>

Rel(p) == IF IsAbs(p) THEN Tail(p) ELSE p

\* os.path.exists(p)
exists(p, dirs, files) ==
    /\ Resolvable(Rel(p), Start(p), dirs)
    /\ (IsDirIn(dirs, Locate(p)) \/ Locate(p) \in DOMAIN files)

RECURSIVE MakeFrom(_, _, _, _)
\* os.makedirs(p, exist_ok=True) from cur: the directories after it, or
\* <<"error">> when a piece is an existing file
MakeFrom(p, cur, dirs, files) ==
    IF Len(p) = 0 THEN dirs
    ELSE LET nxt == NormFrom(<<p[1]>>, cur)
         IN IF nxt \in DOMAIN files THEN {<<"error">>}
            ELSE MakeFrom(Tail(p), nxt, dirs \cup ({nxt} \ SystemDirs), files)

\* os.makedirs(p, exist_ok=True); makedirs('') raises FileNotFoundError
makedirs(p, dirs, files) ==
    IF Len(p) = 0 THEN {<<"error">>}
    ELSE MakeFrom(Rel(p), Start(p), dirs, files)

\* open(p, 'w') succeeds: the parent can be walked and p is no directory
CanOpenWrite(p, dirs, files) ==
    /\ Len(p) > 0
    /\ Resolvable(Rel(p), Start(p), dirs)
    /\ ~IsDirIn(dirs, Locate(p))

(***************************************************************************)
(* Text files: encoding='utf-8', universal newlines on reading             *)
(***************************************************************************)
\* the UTF-8 bytes of one character; a lone surrogate has none
Utf8(ch) ==
    CASE ch = "e-acute" -> <<"C3", "A9">>
      [] ch = "CR" -> <<"0D">>
      [] ch = "LF" -> <<"0A">>
      [] OTHER -> <<ch>>

Encodable(text) == \A i \in 1..Len(text) : text[i] # "lone-surrogate"

RECURSIVE Encode(_)
\* str.encode('utf-8')
Encode(text) ==
    IF Len(text) = 0 THEN <<>> ELSE Utf8(text[1]) \o Encode(Tail(text))

RECURSIVE Decode(_)
\* bytes.decode('utf-8') of bytes written by Encode
Decode(bytes) ==
    IF Len(bytes) = 0 THEN <<>>
    ELSE IF Len(bytes) >= 2 /\ bytes[1] = "C3" /\ bytes[2] = "A9"
    THEN <<"e-acute">> \o Decode(SubSeq(bytes, 3, Len(bytes)))
    ELSE <<(CASE bytes[1] = "0D" -> "CR" [] bytes[1] = "0A" -> "LF" [] OTHER -> bytes[1])>>
             \o Decode(Tail(bytes))

RECURSIVE TranslateNewlines(_)
\* reading in text mode with newline=None: '\r\n' and '\r' become '\n'
TranslateNewlines(text) ==
    IF Len(text) = 0 THEN <<>>
    ELSE IF text[1] = "CR" /\ Len(text) >= 2 /\ text[2] = "LF"
    THEN <<"LF">> \o TranslateNewlines(SubSeq(text, 3, Len(text)))
    ELSE <<(IF text[1] = "CR" THEN "LF" ELSE text[1])>> \o TranslateNewlines(Tail(text))

\* f.read() of a file opened with open(path, 'r', encoding='utf-8')
ReadText(bytes) == TranslateNewlines(Decode(bytes))

\* with open(p, 'w', encoding='utf-8') as f: f.write(text): the file is
\* truncated on opening and stays empty when the text cannot be encoded
WriteText(files, p, text) ==
    LET bytes == IF Encodable(text) THEN Encode(text) ELSE <<>>
    IN [l \in DOMAIN files \cup {Locate(p)} |->
          IF l = Locate(p) THEN bytes ELSE files[l]]

(***************************************************************************)
(* The persistence endpoints                                               *)
(***************************************************************************)
Response(op, status, code, content) ==
    [op |-> op, status |-> status, code |-> code, content |-> content]

NoSave == [valid |-> FALSE, path |-> <<>>, code |-> <<>>]

\* POST /api/save-page {pagePath, code}
SavePage(page_path, updated_code) ==
    LET absolute_path == normpath(PathJoin(static_dir, page_path))
        made == makedirs(dirname(absolute_path), fs_dirs, fs_files)
        fail(status, code) ==
            /\ fs_resp' = Response("save-page", status, code, <<>>)
            /\ UNCHANGED <<fs_dirs, fs_files, h_saved>>
    IN /\ fs_req' = [op |-> "save-page", path |-> page_path, pages |-> <<>>,
                     targets |-> IF Len(page_path) = 0 \/ Len(updated_code) = 0 THEN {}
                                 ELSE {Locate(absolute_path)}]
       /\ IF Len(page_path) = 0 THEN fail(400, "MISSING_PAGE_PATH")
          ELSE IF Len(updated_code) = 0 THEN fail(400, "MISSING_CODE")
          ELSE IF ~startswith_static(absolute_path) THEN fail(400, "INVALID_PATH")
          ELSE IF made = {<<"error">>} THEN fail(500, "SAVE_PAGE_FAILED")
          ELSE IF ~CanOpenWrite(absolute_path, made, fs_files)
          THEN /\ fs_resp' = Response("save-page", 500, "SAVE_PAGE_FAILED", <<>>)
               /\ fs_dirs' = made
               /\ UNCHANGED <<fs_files, h_saved>>
          ELSE /\ fs_dirs' = made
               /\ fs_files' = WriteText(fs_files, absolute_path, updated_code)
               /\ IF Encodable(updated_code)
                  THEN /\ fs_resp' = Response("save-page", 200, "OK", <<>>)
                       /\ h_saved' = [valid |-> TRUE, path |-> page_path,
                                      code |-> updated_code]
                  ELSE /\ fs_resp' = Response("save-page", 500, "SAVE_PAGE_FAILED", <<>>)
                       /\ h_saved' = NoSave

\* POST /api/live-preview {path}
LivePreview(file_path) ==
    LET absolute_path == PathJoin(static_dir, file_path)
    IN /\ fs_req' = [op |-> "live-preview", path |-> file_path, pages |-> <<>>,
                     targets |-> IF Len(file_path) = 0 THEN {}
                                 ELSE {Locate(absolute_path)}]
       /\ fs_resp' =
            IF Len(file_path) = 0
            THEN Response("live-preview", 400, "MISSING_FILE_PATH", <<>>)
            ELSE IF ~exists(absolute_path, fs_dirs, fs_files)
                    \/ ~startswith_static(absolute_path)
            THEN Response("live-preview", 400, "INVALID_FILE_PATH", <<>>)
            ELSE IF IsDirIn(fs_dirs, Locate(absolute_path))
            THEN Response("live-preview", 500, "LIVE_PREVIEW_UPDATE_FAILED", <<>>)
            ELSE Response("live-preview", 200, "OK",
                          ReadText(fs_files[Locate(absolute_path)]))
       /\ UNCHANGED <<fs_dirs, fs_files, h_saved>>

\* page_name.endswith('.html') and page_name += '.html', on the last piece
WithHtml(name) ==
    LET last == name[Len(name)]
    IN IF last \in {"a.html", "x.html"} THEN name
       ELSE Front(name) \o <<(CASE last = "p" -> "p.html"
                                [] last = "passwd" -> "passwd.html"
                                [] OTHER -> "other.html")>>

\* the path add-folder writes a page to
PageFile(folder_path, page) == PathJoin(folder_path, WithHtml(page.name))

\* image_id.split('_')[-1] of the image id an endpoint passes to fetch_image
\* for its i-th tag: add-image builds f"{page_name}_{i}",
\* f"{page_name}_bg_{i}" and f"{page_name}_local_{i}", add-folder builds
\* f"{folder_query}_folder"
ImageIdLast(endpoint, i) ==
    IF endpoint = "add-folder" THEN "folder"
    ELSE CASE i = 0 -> "0" [] i = 1 -> "1" [] OTHER -> "2"

ImageEndpoints == {"add-image", "add-image-bg", "add-image-local", "add-folder"}

RECURSIVE WritePages(_, _, _, _)
\* the for loop of add-folder over pages.items(): the files after it and
\* whether it ran to its end.  A page with an <img> tag of empty or external
\* src calls fetch_image with the image id '<folder>_folder', whose last
\* piece is no number: the call raises and the loop is left.
WritePages(pages, folder_path, dirs, files) ==
    IF Len(pages) = 0 THEN [ok |-> TRUE, files |-> files]
    ELSE LET file_path == PageFile(folder_path, pages[1])
         IN IF pages[1].img /\ ~IsDecimal(ImageIdLast("add-folder", 0))
            THEN [ok |-> FALSE, files |-> files]
            ELSE IF ~CanOpenWrite(file_path, dirs, files)
            THEN [ok |-> FALSE, files |-> files]
            ELSE IF ~Encodable(pages[1].content)
            THEN [ok |-> FALSE, files |-> WriteText(files, file_path, pages[1].content)]
            ELSE WritePages(Tail(pages), folder_path, dirs,
                            WriteText(files, file_path, pages[1].content))

\* POST /api/add-folder {folderName, pages}
AddFolder(folder_name, pages) ==
    LET folder_path == PathJoin(static_dir, folder_name)
        made == makedirs(folder_path, fs_dirs, fs_files)
        written == WritePages(pages, folder_path, made, fs_files)
        fail(status, code) ==
            /\ fs_resp' = Response("add-folder", status, code, <<>>)
            /\ UNCHANGED <<fs_dirs, fs_files, h_saved>>
    IN /\ fs_req' = [op |-> "add-folder", path |-> folder_name, pages |-> pages,
                     targets |-> IF Len(folder_name) = 0 \/ Len(pages) = 0 THEN {}
                                 ELSE {Locate(folder_path)} \cup
                                      {Locate(PageFile(folder_path, pages[i])) :
                                          i \in 1..Len(pages)}]
       /\ IF Len(folder_name) = 0 THEN fail(400, "MISSING_FOLDER_NAME")
          ELSE IF Len(pages) = 0 THEN fail(400, "INVALID_PAGES")
          ELSE IF made = {<<"error">>} THEN fail(500, "FOLDER_CREATION_FAILED")
          ELSE /\ fs_dirs' = made
               /\ fs_files' = written.files
               /\ h_saved' = NoSave
               /\ fs_resp' = IF written.ok
                             THEN Response("add-folder", 200, "OK", <<>>)
                             ELSE Response("add-folder", 500, "FOLDER_CREATION_FAILED", <<>>)

\* the most requests one behaviour of the persistence model holds
MaxRequests == 3

PagePaths ==
    {<<>>, <<"a.html">>, <<"blog", "a.html">>, <<"blog", "..", "a.html">>,
     <<"..", "..", "etc", "passwd">>, <<"..", "static_evil", "a.html">>,
     <<"/", "etc", "passwd">>, <<"blog">>, <<".">>, <<"..", "app.py">>}

Codes ==
    {<<>>, <<"<p>a</p>">>, <<"a", "CR", "LF", "b">>, <<"a", "LF", "b">>,
     <<"e-acute">>, <<"lone-surrogate">>}

FolderNames == {<<>>, <<"blog">>, <<"..", "evil">>, <<"a.html">>}

PageDicts ==
    {<<>>,
     <<[name |-> <<"p">>, content |-> <<"<p>a</p>">>, img |-> FALSE]>>,
     <<[name |-> <<"a.html">>, content |-> <<"a", "CR", "b">>, img |-> FALSE],
       [name |-> <<"x.html">>, content |-> <<"<img src=''>">>, img |-> TRUE]>>,
     <<[name |-> <<"..", "..", "x.html">>, content |-> <<"<p>a</p>">>, img |-> FALSE]>>}

\* the file tree before the first request
InitDirs == {static_dir}

InitFiles ==
    [l \in {<<"static", "index.html">>, <<"app.py">>} |->
        IF l = <<"app.py">> THEN <<"import os">> ELSE <<"<p>home</p>">>]

FsInit ==
    /\ fs_dirs = InitDirs
    /\ fs_files = InitFiles
    /\ fs_req = [op |-> "none", path |-> <<>>, pages |-> <<>>, targets |-> {}]
    /\ fs_resp = Response("none", 0, "none", <<>>)
    /\ fs_n = 0
    /\ h_saved = NoSave

FsIdle ==
    /\ fs_dirs = {}
    /\ fs_files = <<>>
    /\ fs_req = [op |-> "none", path |-> <<>>, pages |-> <<>>, targets |-> {}]
    /\ fs_resp = Response("none", 0, "none", <<>>)
    /\ fs_n = MaxRequests
    /\ h_saved = NoSave

SavePageRequest ==
    /\ fs_n < MaxRequests
    /\ fs_n' = fs_n + 1
    /\ \E page_path \in PagePaths, code \in Codes : SavePage(page_path, code)
    /\ UNCHANGED notFs

LivePreviewRequest ==
    /\ fs_n < MaxRequests
    /\ fs_n' = fs_n + 1
    /\ \E file_path \in PagePaths : LivePreview(file_path)
    /\ UNCHANGED notFs

AddFolderRequest ==
    /\ fs_n < MaxRequests
    /\ fs_n' = fs_n + 1
    /\ \E folder_name \in FolderNames, pages \in PageDicts : AddFolder(folder_name, pages)
    /\ UNCHANGED notFs

(***************************************************************************)
(* POST /api/update-hierarchy                                              *)
(***************************************************************************)
\* the location l is d or lies under the directory d
Under(l, d) == Len(l) >= Len(d) /\ SubSeq(l, 1, Len(d)) = d

\* the location of l once s has been renamed to d
Reloc(l, s, d) == IF Under(l, s) THEN d \o SubSeq(l, Len(s) + 1, Len(l)) ELSE l

\* os.rename(src, dest) raises: the parent of dest is missing, a file goes
\* onto a directory, a directory goes onto a file, onto a directory that is
\* not empty or into itself
RenameFails(src, dest, dirs, files) ==
    LET s == Locate(src)
        d == Locate(dest)
    IN \/ ~Resolvable(Rel(dest), Start(dest), dirs)
       \/ s \in DOMAIN files /\ IsDirIn(dirs, d)
       \/ IsDirIn(dirs, s) /\ d \in DOMAIN files
       \/ IsDirIn(dirs, s) /\ \E l \in (DOMAIN files \cup dirs) \ {d} : Under(l, d)
       \/ IsDirIn(dirs, s) /\ Under(d, s)

\* the files after os.rename(src, dest): a file at dest is replaced
RenameFiles(files, src, dest) ==
    LET s == Locate(src)
        d == Locate(dest)
        kept == DOMAIN files \ {d}
    IN [m \in {Reloc(l, s, d) : l \in kept} |->
          files[CHOOSE l \in kept : Reloc(l, s, d) = m]]

\* the directories after os.rename(src, dest)
RenameDirs(dirs, src, dest) == {Reloc(x, Locate(src), Locate(dest)) : x \in dirs}

RECURSIVE MoveChildren(_, _, _, _)
\* for child in item.get('children', []): the answer code of the loop and
\* the tree it leaves
MoveChildren(children, folder_path, dirs, files) ==
    IF Len(children) = 0 THEN [code |-> "OK", dirs |-> dirs, files |-> files]
    ELSE LET child == children[1]
             src_path == normpath(PathJoin(static_dir, child.path))
             dest_path == normpath(PathJoin(folder_path, child.name))
         IN IF child.type # "file"
            THEN MoveChildren(Tail(children), folder_path, dirs, files)
            ELSE IF ~startswith_static(src_path) \/ ~startswith_static(dest_path)
            THEN [code |-> "INVALID_PATH", dirs |-> dirs, files |-> files]
            ELSE IF ~(exists(src_path, dirs, files) /\ src_path # dest_path)
            THEN MoveChildren(Tail(children), folder_path, dirs, files)
            ELSE IF RenameFails(src_path, dest_path, dirs, files)
            THEN [code |-> "HIERARCHY_UPDATE_FAILED", dirs |-> dirs, files |-> files]
            ELSE MoveChildren(Tail(children), folder_path,
                              RenameDirs(dirs, src_path, dest_path),
                              RenameFiles(files, src_path, dest_path))

RECURSIVE MoveItems(_, _, _)
\* for item in new_hierarchy
MoveItems(items, dirs, files) ==
    IF Len(items) = 0 THEN [code |-> "OK", dirs |-> dirs, files |-> files]
    ELSE LET item == items[1]
             folder_path == normpath(PathJoin(static_dir, item.path))
             made == makedirs(folder_path, dirs, files)
             moved == MoveChildren(item.children, folder_path, made, files)
         IN IF item.type # "folder" THEN MoveItems(Tail(items), dirs, files)
            ELSE IF ~startswith_static(folder_path)
            THEN [code |-> "INVALID_PATH", dirs |-> dirs, files |-> files]
            ELSE IF made = {<<"error">>}
            THEN [code |-> "HIERARCHY_UPDATE_FAILED", dirs |-> dirs, files |-> files]
            ELSE IF moved.code # "OK" THEN moved
            ELSE MoveItems(Tail(items), moved.dirs, moved.files)

\* the destinations the request names
Destinations(new_hierarchy) ==
    UNION {{Locate(PathJoin(normpath(PathJoin(static_dir, new_hierarchy[i].path)),
                            new_hierarchy[i].children[j].name)) :
               j \in 1..Len(new_hierarchy[i].children)} :
           i \in 1..Len(new_hierarchy)}

\* POST /api/update-hierarchy {hierarchy}
UpdateHierarchy(new_hierarchy) ==
    LET out == MoveItems(new_hierarchy, fs_dirs, fs_files)
    IN /\ h_before' = fs_files
       /\ h_saved' = NoSave
       /\ fs_req' = [op |-> "update-hierarchy", path |-> <<>>, pages |-> <<>>,
                     targets |-> Destinations(new_hierarchy)]
       /\ IF Len(new_hierarchy) = 0
          THEN /\ fs_resp' = Response("update-hierarchy", 400, "MISSING_HIERARCHY", <<>>)
               /\ UNCHANGED <<fs_dirs, fs_files>>
          ELSE /\ fs_dirs' = out.dirs
               /\ fs_files' = out.files
               /\ fs_resp' = Response("update-hierarchy",
                                      CASE out.code = "OK" -> 200
                                        [] out.code = "INVALID_PATH" -> 400
                                        [] OTHER -> 500,
                                      out.code, <<>>)

\* the most update-hierarchy requests of one behaviour
MaxMoves == 2

\* the most children of a folder item
MaxChildren == 2

HiChildren ==
    {[type |-> "file", name |-> n, path |-> p] :
        n \in {<<"a.html">>, <<"b.html">>},
        p \in {<<"a.html">>, <<"blog", "a.html">>, <<"b.html">>, <<"missing.html">>}}
        \cup {[type |-> "folder", name |-> <<"blog">>, path |-> <<"blog">>]}

Hierarchies ==
    {<<>>, <<[type |-> "file", path |-> <<"a.html">>, children |-> <<>>]>>}
        \cup {<<[type |-> "folder", path |-> f, children |-> cs]>> :
                 f \in {<<"blog">>, <<"docs">>, <<"..", "evil">>},
                 cs \in UNION {[1..k -> HiChildren] : k \in 0..MaxChildren}}

\* the documents of the tree before the first update-hierarchy request
HiFiles ==
    [l \in {<<"static", "a.html">>, <<"static", "blog", "a.html">>,
            <<"static", "b.html">>, <<"app.py">>} |->
        CASE l = <<"static", "a.html">> -> <<"<p>home</p>">>
          [] l = <<"static", "blog", "a.html">> -> <<"<p>post</p>">>
          [] l = <<"static", "b.html">> -> <<"<p>about</p>">>
          [] OTHER -> <<"import os">>]

HiInit ==
    /\ fs_dirs = {static_dir, <<"static", "blog">>}
    /\ fs_files = HiFiles
    /\ fs_req = [op |-> "none", path |-> <<>>, pages |-> <<>>, targets |-> {}]
    /\ fs_resp = Response("none", 0, "none", <<>>)
    /\ fs_n = 0
    /\ h_saved = NoSave
    /\ h_before = HiFiles

UpdateHierarchyRequest ==
    /\ fs_n < MaxMoves
    /\ fs_n' = fs_n + 1
    /\ \E new_hierarchy \in Hierarchies : UpdateHierarchy(new_hierarchy)
    /\ UNCHANGED notHi

\* C27: update-hierarchy never destroys a persisted document: after any
\* request, successful or rejected, every document that existed before the
\* request still exists with unchanged content, at its original path or at
\* a destination of the request, also when the destination folder already
\* holds a file of the same name.
C27_DocumentsSurvive ==
    fs_resp.op = "update-hierarchy" =>
        \A l \in DOMAIN h_before :
            \E m \in {l} \cup fs_req.targets :
                m \in DOMAIN fs_files /\ fs_files[m] = h_before[l]

(***************************************************************************)
(* Claims about the persistence endpoints (checked under SpecFiles)        *)
(***************************************************************************)
\* C5: a save-page or add-folder request whose resolved target lies outside
\* the content root 'static' is rejected with the unauthorized-path error,
\* and nothing outside the content root is created or written.
C5_PathConfinement ==
    /\ \A d \in fs_dirs : InRoot(d) \/ d \in InitDirs
    /\ \A l \in DOMAIN fs_files :
          InRoot(l) \/ (l \in DOMAIN InitFiles /\ fs_files[l] = InitFiles[l])
    /\ (fs_resp.op \in {"save-page", "add-folder"}
          /\ \E t \in fs_req.targets : ~InRoot(t))
         => fs_resp.code = "INVALID_PATH"

\* C6: a live-preview read of a path that save-page has just accepted, with
\* no other write in between, returns exactly the code that was saved.
C6_SaveThenRead ==
    (fs_resp.op = "live-preview" /\ h_saved.valid /\ fs_req.path = h_saved.path) =>
        /\ fs_resp.code = "OK"
        /\ fs_resp.content = h_saved.code

\* C26: live-preview never returns the content of a file outside the content
\* root: every requested path that resolves outside 'static' (through '..'
\* pieces, for example) is rejected with INVALID_FILE_PATH, and no file
\* outside the root is read.
C26_PreviewConfinement ==
    (fs_resp.op = "live-preview" /\ \E t \in fs_req.targets : ~InRoot(t)) =>
        /\ fs_resp.code = "INVALID_FILE_PATH"
        /\ fs_resp.content = <<>>

(***************************************************************************)
(* clean_code                                                              *)
(* A document is a sequence of markup atoms: "DOCTYPE" is                  *)
(* '<!DOCTYPE html>', "<html" the start of an html tag, "LANG>" its        *)
(* ' lang="en">' end and ">" its plain end, "META" the two meta lines of   *)
(* the inserted head, "NL" a line break, "SP" a blank, "FENCE" a fence,      *)
(* "html" the word after an opening fence, "Note" a text that begins with  *)
(* a meta-commentary phrase, "text" any other text.                        *)
(***************************************************************************)
IsSpace(a) == a \in {"NL", "SP"}

HasNewline(a) == a \in {"NL", "META"}

\* str.strip()
Strip(s) ==
    LET solid == {i \in 1..Len(s) : ~IsSpace(s[i])}
    IN IF solid = {} THEN <<>>
       ELSE SubSeq(s, CHOOSE i \in solid : \A j \in solid : i <= j,
                      CHOOSE i \in solid : \A j \in solid : j <= i)

\* the least element of a non-empty set of positions
Least(S) == CHOOSE i \in S : \A j \in S : i <= j

\* re.search(r'FENCEhtml\n([\s\S]*?)\nFENCE', html_code): group(1) of the
\* leftmost match, or the input when nothing matches
ExtractFenced(s) ==
    LET closes(i) == {j \in (i + 3)..(Len(s) - 1) : s[j] = "NL" /\ s[j + 1] = "FENCE"}
        opens == {i \in 1..(Len(s) - 2) :
                     /\ s[i] = "FENCE" /\ s[i + 1] = "html" /\ s[i + 2] = "NL"
                     /\ closes(i) # {}}
    IN IF opens = {} THEN s
       ELSE SubSeq(s, Least(opens) + 3, Least(closes(Least(opens))) - 1)

RECURSIVE RemoveFences(_)
\* re.sub(r'FENCEhtml\n|FENCE', '', cleaned)
RemoveFences(s) ==
    IF Len(s) = 0 THEN <<>>
    ELSE IF s[1] = "FENCE" /\ Len(s) >= 3 /\ s[2] = "html" /\ s[3] = "NL"
    THEN RemoveFences(SubSeq(s, 4, Len(s)))
    ELSE IF s[1] = "FENCE" THEN RemoveFences(Tail(s))
    ELSE <<s[1]>> \o RemoveFences(Tail(s))

RECURSIVE RemoveComments(_)
\* re.sub(r'<!--[\s\S]*?-->', '', cleaned)
RemoveComments(s) ==
    LET ends == {j \in 2..Len(s) : s[j] = "-->"}
    IN IF Len(s) = 0 THEN <<>>
       ELSE IF s[1] = "<!--" /\ ends # {}
       THEN RemoveComments(SubSeq(s, Least(ends) + 1, Len(s)))
       ELSE <<s[1]>> \o RemoveComments(Tail(s))

RECURSIVE RemoveCommentary(_)
\* re.sub(r'<p[^>]*>\s*(This code creates|...|Note|Description)[\s\S]*?</p>',
\*        '', cleaned, flags=re.I)
RemoveCommentary(s) ==
    LET solid == {k \in 2..Len(s) : ~IsSpace(s[k])}
        ends == {j \in (Least(solid) + 1)..Len(s) : s[j] = "</p>"}
    IN IF Len(s) = 0 THEN <<>>
       ELSE IF s[1] = "<p>" /\ solid # {} /\ s[Least(solid)] = "Note" /\ ends # {}
       THEN RemoveCommentary(SubSeq(s, Least(ends) + 1, Len(s)))
       ELSE <<s[1]>> \o RemoveCommentary(Tail(s))

RECURSIVE Replace(_, _, _)
\* str.replace(old, new) for an atom old and a sequence new
Replace(s, old, new) ==
    IF Len(s) = 0 THEN <<>>
    ELSE (IF s[1] = old THEN new ELSE <<s[1]>>) \o Replace(Tail(s), old, new)

RECURSIVE ReplaceTitle(_, _)
\* re.sub(r'<title>.*?</title>', '<title>... - My Website</title>', cleaned):
\* '.' matches no line break
ReplaceTitle(s, title) ==
    LET ends == {j \in 2..Len(s) : s[j] = "</title>"}
    IN IF Len(s) = 0 THEN <<>>
       ELSE IF /\ s[1] = "<title>"
               /\ ends # {}
               /\ \A k \in 2..(Least(ends) - 1) : ~HasNewline(s[k])
       THEN <<"<title>", title, "</title>">>
                \o ReplaceTitle(SubSeq(s, Least(ends) + 1, Len(s)), title)
       ELSE <<s[1]>> \o ReplaceTitle(Tail(s), title)

\* '<!DOCTYPE html>\n<html lang="en">\n{cleaned.strip()}\n</html>'
Wrap(s) == <<"DOCTYPE", "NL", "<html", "LANG>", "NL">> \o Strip(s) \o <<"NL", "</html>">>

\* the text the '<html' of a document without '<head>' is replaced by
HtmlWithHead ==
    <<"<html", "LANG>", "NL", "<head>", "NL", "META", "NL", "</head>", "NL">>

Contains(s, a) == \E i \in 1..Len(s) : s[i] = a

\* re.search(r'<html[\s\S]*?</html>', cleaned, re.I)
HasHtmlSpan(s) ==
    \E i \in 1..Len(s) : s[i] = "<html" /\ \E j \in (i + 1)..Len(s) : s[j] = "</html>"

\* page_name.replace(".html", "") followed by ' - My Website'
TitleText(page_name) ==
    CASE page_name \in {"Home", "Home.html"} -> "Home - My Website"
      [] page_name = "About" -> "About - My Website"
      [] OTHER -> "Other - My Website"

\* a replacement template with a backslash escape re does not know
\* (page_name 'C:\q'): re.sub raises re.error
BadTemplate(page_name) == page_name = "C:\\q"

\* the error page of the final validation
ErrorPage(page_name) ==
    <<"DOCTYPE", "NL", "<html", "LANG>", "NL", "<head>", "NL", "META", "NL",
      "<title>", TitleText(page_name), "</title>", "NL", "</head>", "NL",
      "<body>", "NL", "<p>", "Error", "</p>", "NL", "</body>", "NL", "</html>">>

\* clean_code(html_code, page_name)
clean_code(html_code, page_name) ==
    LET c1 == RemoveCommentary(RemoveComments(RemoveFences(ExtractFenced(html_code))))
        c2 == IF Len(Strip(c1)) > 0 /\ Strip(c1)[1] = "DOCTYPE" THEN c1 ELSE Wrap(c1)
        c3 == IF Contains(c2, "<html") THEN c2 ELSE Wrap(c2)
        c4 == IF Contains(c3, "<head>") THEN c3 ELSE Replace(c3, "<html", HtmlWithHead)
        c5 == IF Contains(c4, "<body>") THEN c4
              ELSE Replace(c4, "</head>", <<"</head>", "NL", "<body>", "NL">>)
                       \o <<"NL", "</body>">>
        c6 == ReplaceTitle(c5, TitleText(page_name))
        c7 == IF Len(c6) > 0 /\ c6[Len(c6)] = "</html>" THEN c6
              ELSE c6 \o <<"NL", "</html>">>
        c8 == IF HasHtmlSpan(c7) THEN c7 ELSE ErrorPage(page_name)
    IN IF BadTemplate(page_name) THEN Raise("re.error") ELSE Return(Strip(c8))

(***************************************************************************)
(* Inputs of the post-processor                                            *)
(***************************************************************************)
\* the pieces raw LLM outputs are made of
Chunks ==
    {<<"DOCTYPE">>, <<"<html", ">">>, <<"</html>">>,
     <<"<head>">>, <<"</head>">>, <<"<body>">>, <<"</body>">>,
     <<"<title>", "text", "</title>">>,
     <<"NL">>, <<"text">>,
     <<"FENCE", "html", "NL">>, <<"NL", "FENCE">>,
     <<"<!--">>, <<"-->">>,
     <<"<p>", "Note", "</p>">>}

\* the most chunks of a raw output
MaxChunks == 3

RECURSIVE Flatten(_)
Flatten(ss) == IF Len(ss) = 0 THEN <<>> ELSE ss[1] \o Flatten(Tail(ss))

\* the atoms of paragraphs, and the most atoms of a raw output made of them
ParaAtoms == {"<p>", "Note", "</p>", "text"}

MaxParaAtoms == 6

RawOutputs ==
    {Flatten(cs) : cs \in UNION {[1..k -> Chunks] : k \in 0..MaxChunks}}
        \cup UNION {[1..k -> ParaAtoms] : k \in 0..MaxParaAtoms}

PageNames == {"Home", "Home.html", "C:\\q"}

CcInit ==
    /\ cc_input \in RawOutputs
    /\ cc_page \in PageNames
    /\ cc_pc = "call"
    /\ cc_out1 = NotCalled
    /\ cc_out2 = NotCalled

CcIdle ==
    /\ cc_input = <<>>
    /\ cc_page = "Home"
    /\ cc_pc = "idle"
    /\ cc_out1 = NotCalled
    /\ cc_out2 = NotCalled

\* clean_code on a raw LLM output
CleanOnce ==
    /\ cc_pc = "call"
    /\ cc_out1' = clean_code(cc_input, cc_page)
    /\ cc_pc' = "once"
    /\ UNCHANGED <<cc_input, cc_page, cc_out2>>
    /\ UNCHANGED notCc

\* clean_code on its own output
CleanAgain ==
    /\ cc_pc = "once"
    /\ cc_out1.kind = "return"
    /\ cc_out2' = clean_code(cc_out1.val, cc_page)
    /\ cc_pc' = "twice"
    /\ UNCHANGED <<cc_input, cc_page, cc_out1>>
    /\ UNCHANGED notCc

(***************************************************************************)
(* Claims about clean_code (checked under SpecClean)                       *)
(***************************************************************************)
Count(s, a) == Cardinality({i \in 1..Len(s) : s[i] = a})

Pos(s, a) == Least({i \in 1..Len(s) : s[i] = a})

\* C7: for a raw output without HTML markup and a page title T, clean_code
\* returns a document with '<html', '<head>', '<body>', '</html>' and a
\* <title> element whose content is exactly 'T - My Website'.
C7_ShellAndTitle ==
    (/\ cc_pc # "call"
     /\ cc_page \in {"Home", "Home.html"}
     /\ \A i \in 1..Len(cc_input) : cc_input[i] \in {"text", "NL", "Note"}) =>
        /\ cc_out1.kind = "return"
        /\ \A a \in {"<html", "<head>", "<body>", "</html>"} : Contains(cc_out1.val, a)
        /\ \E i \in 1..(Len(cc_out1.val) - 2) :
              /\ cc_out1.val[i] = "<title>"
              /\ cc_out1.val[i + 1] = "Home - My Website"
              /\ cc_out1.val[i + 2] = "</title>"

\* C8: clean_code applied to its own output changes nothing.
C8_Idempotent ==
    cc_pc = "twice" => cc_out2 = cc_out1

\* C9: clean_code never raises and returns a non-empty document that starts
\* with the doctype, has exactly one opening and one closing html tag, one
\* <head> and one <body>, </head> before <body>, and </body> before the
\* final </html>.
C9_WellFormedShell ==
    cc_pc # "call" =>
        /\ cc_out1.kind = "return"
        /\ LET d == cc_out1.val
           IN /\ Len(d) > 0
              /\ d[1] = "DOCTYPE"
              /\ d[Len(d)] = "</html>"
              /\ \A a \in {"<html", "</html>", "<head>", "</head>", "<body>", "</body>"} :
                    Count(d, a) = 1
              /\ Pos(d, "</head>") < Pos(d, "<body>")
              /\ Pos(d, "</body>") < Pos(d, "</html>")

(***************************************************************************)
(* The LLM-backed endpoints: generate, voice-modification; check-address   *)
(***************************************************************************)
\* a field of the JSON body: absent, null, or a string
Field(kind, s) == [kind |-> kind, str |-> s]

\* data.get(key, default): the default for an absent key, None for null
Get(f, default) ==
    IF f.kind = "absent" THEN Some(default)
    ELSE IF f.kind = "null" THEN None
    ELSE Some(f.str)

\* jsonify(...), status: the keys of the JSON body, its 'code' value, and
\* the generated document it carries
EpResponse(status, keys, code, body) ==
    [status |-> status, keys |-> keys, code |-> code, body |-> body]

\* the capture group of re.search(<pattern of the field>, piece, re.I) on
\* one piece of a prompt, or "nomatch".  The patterns are searched anywhere
\* in the prompt, inside a quoted content too, and Style captures up to the
\* first closing brace.
FieldMatch(field, piece) ==
    CASE field = "action" /\ piece = "Action: remove" -> "remove"
      [] field = "action" /\ piece = "action: MODIFY" -> "MODIFY"
      [] field = "action" /\ piece = "Content: \"Action: remove\"" -> "remove"
      [] field = "target" /\ piece = "Target: Hero" -> "Hero"
      [] field = "content" /\ piece = "Content: \"hi\"" -> "hi"
      [] field = "content" /\ piece = "Content: \"Action: remove\"" -> "Action: remove"
      [] field = "style" /\ piece = "Style: {}" -> "{}"
      [] field = "style" /\ piece = "Style: {\"animation\": \"fade\"}" -> "{\"animation\": \"fade\"}"
      [] field = "style" /\ piece = "Style: {color: red}" -> "{color: red}"
      [] field = "style" /\ piece = "Style: {\"font\": {\"size\": 2}}" -> "{\"font\": {\"size\": 2}"
      [] field = "icon" /\ piece = "Icon: star" -> "star"
      [] OTHER -> "nomatch"

\* re.search over the whole prompt: the leftmost match
Search(field, prompt) ==
    LET hits == {i \in 1..Len(prompt) : FieldMatch(field, prompt[i]) # "nomatch"}
    IN IF hits = {} THEN "nomatch" ELSE FieldMatch(field, prompt[Least(hits)])

\* json.loads of a captured style: a dict, or JSONDecodeError
json_loads(text) ==
    CASE text = "{}" -> Return("{}")
      [] text = "{\"animation\": \"fade\"}" -> Return("{\"animation\": \"fade\"}")
      [] OTHER -> Raise("JSONDecodeError")

\* the ModificationIntent of a prompt (app.py:441-452): each field is its
\* match, lowercased for action and target, or its default
ParseIntent(prompt) ==
    LET m(field) == Search(field, prompt)
        low(w) == CASE w = "MODIFY" -> "modify" [] w = "Hero" -> "hero" [] OTHER -> w
    IN [action |-> IF m("action") # "nomatch" THEN low(m("action")) ELSE "add",
        target |-> IF m("target") # "nomatch" THEN low(m("target")) ELSE "custom",
        content |-> IF m("content") # "nomatch" THEN m("content") ELSE "",
        style |-> IF m("style") # "nomatch" THEN json_loads(m("style")) ELSE Return("{}"),
        icon |-> IF m("icon") # "nomatch" THEN m("icon") ELSE "None"]

\* page_path.split('/')[-1].replace('.html', '')
page_name_of(page_path) ==
    CASE page_path = <<"default/index.html">> -> "index"
      [] page_path = <<"blog/Home.html">> -> "Home"
      [] page_path = <<"C:\\q.html">> -> "C:\\q"
      [] OTHER -> "Other"

\* extract_intent(transcription): the first phrase family, in the order of
\* the elif chain, one of whose phrases occurs in the lowercased command
extract_intent(transcription) ==
    LET said == Range(Lower(transcription))
    IN IF said \cap {"ajouter une image", "add an image"} # {} THEN "add_image"
       ELSE IF said \cap {"changer le texte", "change the text"} # {} THEN "modify_text"
       ELSE IF said \cap {"changer le style", "change the style"} # {} THEN "modify_style"
       ELSE IF said \cap {"ajouter un bouton", "add a button"} # {} THEN "add_button"
       ELSE IF said \cap {"ajouter une icône", "add an icon"} # {} THEN "add_icon"
       ELSE "unknown"

\* is_address_and_map_intent(prompt)
is_address_and_map_intent(prompt) ==
    /\ \E i \in 1..Len(prompt) : prompt[i] \in {"12", "rue"}
    /\ \E i \in 1..Len(prompt) : prompt[i] \in {"map", "carte"}

\* stop_after_attempt(3) of the retry decorator
stop_after_attempt == 3

\* what the Groq service does with one requests.post
LlmOutputs ==
    {<<"text">>,
     <<"<head>">>,
     <<"DOCTYPE", "NL", "<html", ">", "<head>", "<style>", "css", "</style>", "</head>",
       "<body>", "text", "</body>", "</html>">>,
     <<"DOCTYPE", "NL", "<html", ">", "<head>", "</head>", "<body>", "text", "</body>",
       "</html>">>,
     <<"<html", ">", "<head>", "<style media>", "css", "</style>", "</head>", "</html>">>,
     <<"<html", ">", "<HEAD>", "</HEAD>", "text", "</html>">>}

LlmAnswers ==
    {[status |-> 200, json |-> "completion", content |-> c] : c \in LlmOutputs}
        \cup {[status |-> st, json |-> j, content |-> <<>>] :
                 st \in {200, 429, 500}, j \in {"no choices", "refused"}}

\* call_groq_api(messages) given the answer to its requests.post: the
\* completion, or the exception it re-raises
call_groq_api(answer) ==
    IF answer.json = "refused" THEN Raise("ConnectionError")
    ELSE IF answer.status = 429 THEN Raise("HTTPError 429")
    ELSE IF answer.status >= 400 THEN Raise("HTTPError 500")
    ELSE Return(answer)

\* the default stylesheet put before </head> when the code has no <style>
InjectStyles(cleaned_code) ==
    IF Contains(cleaned_code, "<style>") THEN cleaned_code
    ELSE Replace(cleaned_code, "</head>",
                 <<"<style>", "default_styles", "</style>", "NL", "</head>">>)

NoIntent ==
    [action |-> "unset", target |-> "unset", content |-> "unset",
     style |-> "unset", icon |-> "unset", intent |-> "unset"]

NoResponse == EpResponse(0, {}, "none", <<>>)

\* the most lines of a prompt or of a voice command; a prompt is a sequence
\* of lines and a line is one piece: a field, a word, or the blank "SP"
MaxPieces == 2

PromptPieces ==
    {"Action: remove", "action: MODIFY", "Content: \"Action: remove\"", "Target: Hero",
     "Content: \"hi\"", "Style: {}", "Style: {\"animation\": \"fade\"}",
     "Style: {color: red}", "Style: {\"font\": {\"size\": 2}}", "Icon: star",
     "hello", "SP", "12", "rue", "map"}

VoicePieces == {"add an image", "Add An Image", "changer le style", "add an icon",
                "icon star", "hello", "SP"}

\* the JSON bodies of the requests of one endpoint
Requests(name) ==
    LET pieces == IF name = "voice-modification" THEN VoicePieces ELSE PromptPieces
        texts == {Field("absent", <<>>), Field("null", <<>>)}
                    \cup {Field("string", t) :
                             t \in UNION {[1..k -> pieces] : k \in 0..MaxPieces}}
        codes == {Field("absent", <<>>), Field("string", <<"<p>", "text", "</p>">>)}
        paths == {Field("absent", <<>>), Field("null", <<>>),
                  Field("string", <<"blog/Home.html">>),
                  Field("string", <<"C:\\q.html">>)}
    IN [text : texts, currentCode : codes, pagePath : paths]

EpInit ==
    /\ ep_name \in {"generate", "voice-modification", "check-address"}
    /\ ep_req \in Requests(ep_name)
    /\ ep_pc = "received"
    /\ ep_intent = NoIntent
    /\ ep_page_name = ""
    /\ ep_resp = NoResponse
    /\ llm_calls = 0
    /\ llm_posts = 0
    /\ llm_out = NotCalled
    /\ h_cleaned = <<>>

EpIdle ==
    /\ ep_name = "none"
    /\ ep_req = [text |-> Field("absent", <<>>), currentCode |-> Field("absent", <<>>),
                 pagePath |-> Field("absent", <<>>)]
    /\ ep_pc = "idle"
    /\ ep_intent = NoIntent
    /\ ep_page_name = ""
    /\ ep_resp = NoResponse
    /\ llm_calls = 0
    /\ llm_posts = 0
    /\ llm_out = NotCalled
    /\ h_cleaned = <<>>

\* the handler answers: return jsonify(...), status
Respond(status, keys, code, body) ==
    /\ ep_resp' = EpResponse(status, keys, code, body)
    /\ ep_pc' = "done"

\* POST /api/generate, up to the call of the LLM
GenerateCodeEndpoint ==
    /\ ep_pc = "received"
    /\ ep_name = "generate"
    /\ LET prompt == Get(ep_req.text, <<>>)
           page_path == Get(ep_req.pagePath, <<"default/index.html">>)
           intent == ParseIntent(Strip(prompt.str))
           failed == Respond(500, {"error", "code"}, "GENERATE_CODE_FAILED", <<>>)
                        /\ UNCHANGED <<ep_intent, ep_page_name>>
       IN IF ~prompt.some THEN failed
          ELSE IF Len(Strip(prompt.str)) = 0
          THEN /\ Respond(400, {"error", "code"}, "MISSING_PROMPT", <<>>)
               /\ UNCHANGED <<ep_intent, ep_page_name>>
          ELSE IF intent.style.kind = "raise" \/ ~page_path.some THEN failed
          ELSE /\ ep_intent' = [NoIntent EXCEPT !.action = intent.action,
                                                !.target = intent.target,
                                                !.content = intent.content,
                                                !.style = intent.style.val,
                                                !.icon = intent.icon]
               /\ ep_page_name' = page_name_of(page_path.str)
               /\ ep_pc' = "calling"
               /\ UNCHANGED ep_resp
    /\ UNCHANGED <<ep_name, ep_req, llm_calls, llm_posts, llm_out, h_cleaned>>
    /\ UNCHANGED notEp

\* POST /api/voice-modification, up to the call of the LLM
VoiceModification ==
    /\ ep_pc = "received"
    /\ ep_name = "voice-modification"
    /\ LET voice_transcription == Get(ep_req.text, <<>>)
           current_code == Get(ep_req.currentCode, <<>>)
           page_path == Get(ep_req.pagePath, <<"default/index.html">>)
           said == Strip(voice_transcription.str)
           icon == IF "icon star" \in Range(Lower(said)) THEN "star" ELSE "None"
           answer(status, code) ==
               /\ Respond(status, {"error", "code"}, code, <<>>)
               /\ UNCHANGED <<ep_intent, ep_page_name>>
       IN IF ~voice_transcription.some THEN answer(500, "VOICE_MODIFICATION_FAILED")
          ELSE IF Len(said) = 0 THEN answer(400, "MISSING_TRANSCRIPTION")
          ELSE IF ~Truthy(current_code) THEN answer(400, "MISSING_CURRENT_CODE")
          ELSE IF ~page_path.some THEN answer(500, "VOICE_MODIFICATION_FAILED")
          ELSE IF extract_intent(said) = "unknown" THEN answer(400, "UNKNOWN_INTENT")
          ELSE /\ ep_intent' = [NoIntent EXCEPT !.intent = extract_intent(said),
                                                !.icon = icon]
               /\ ep_page_name' = page_name_of(page_path.str)
               /\ ep_pc' = "calling"
               /\ UNCHANGED ep_resp
    /\ UNCHANGED <<ep_name, ep_req, llm_calls, llm_posts, llm_out, h_cleaned>>
    /\ UNCHANGED notEp

\* POST /api/check-address
CheckAddress ==
    /\ ep_pc = "received"
    /\ ep_name = "check-address"
    /\ IF ep_req.text.kind # "string" \/ Len(ep_req.text.str) = 0
       THEN Respond(400, {"isAddressAndMapIntent", "code"}, "MISSING_PROMPT", <<>>)
       ELSE Respond(200, {"isAddressAndMapIntent"}, "none",
                    <<IF is_address_and_map_intent(ep_req.text.str) THEN "true" ELSE "false">>)
    /\ UNCHANGED <<ep_name, ep_req, ep_intent, ep_page_name, llm_calls, llm_posts,
                   llm_out, h_cleaned>>
    /\ UNCHANGED notEp

\* the handler calls call_groq_api: one requests.post, no retry
CallGroqApi ==
    /\ ep_pc = "calling"
    /\ \E answer \in LlmAnswers : llm_out' = call_groq_api(answer)
    /\ llm_calls' = llm_calls + 1
    /\ llm_posts' = llm_posts + 1
    /\ ep_pc' = "answered"
    /\ UNCHANGED <<ep_name, ep_req, ep_intent, ep_page_name, ep_resp, h_cleaned>>
    /\ UNCHANGED notEp

\* the rest of generate and of voice-modification: the content of the
\* completion, clean_code, the default styles (generate only), the answer
FinishRequest ==
    /\ ep_pc = "answered"
    /\ LET code == IF ep_name = "generate" THEN "GENERATE_CODE_FAILED"
                   ELSE "VOICE_MODIFICATION_FAILED"
           failed == Respond(500, {"error", "code"}, code, <<>>) /\ UNCHANGED h_cleaned
       IN IF llm_out.kind = "raise" \/ llm_out.val.json # "completion" THEN failed
          ELSE \E cleaned \in {clean_code(llm_out.val.content, ep_page_name)} :
                  IF cleaned.kind = "raise" THEN failed
                  ELSE /\ h_cleaned' = cleaned.val
                       /\ IF ep_name = "generate"
                          THEN Respond(200, {"code", "folder", "modifications"}, "none",
                                       InjectStyles(cleaned.val))
                          ELSE Respond(200, {"code", "intent", "icon", "message"}, "none",
                                       cleaned.val)
    /\ UNCHANGED <<ep_name, ep_req, ep_intent, ep_page_name, llm_calls, llm_posts, llm_out>>
    /\ UNCHANGED notEp

NextEndpoints ==
    GenerateCodeEndpoint \/ VoiceModification \/ CheckAddress \/ CallGroqApi
        \/ FinishRequest

(***************************************************************************)
(* Claims about the LLM-backed endpoints (checked under SpecEndpoints)     *)
(***************************************************************************)
\* the request carries a text (prompt, voice command) that is not blank
HasText == ep_req.text.kind = "string" /\ Len(Strip(ep_req.text.str)) > 0

\* C13: when the LLM HTTP call answers with an HTTP error status (429
\* included) it is attempted again, 3 attempts in all, before the failure
\* reaches the endpoint; an error that is no HTTP-error response is not
\* retried.
C13_LlmRetry ==
    (ep_pc = "done" /\ llm_out.kind = "raise") =>
        /\ llm_out.exc \in {"HTTPError 429", "HTTPError 500"} =>
              llm_posts = stop_after_attempt
        /\ llm_out.exc = "ConnectionError" => llm_posts = 1

\* C15: every failure response of an endpoint is a JSON body with both an
\* 'error' and a 'code' field, with status 400, 404 or 500.
C15_ErrorBodies ==
    (ep_pc = "done" /\ ep_resp.status # 200) =>
        /\ {"error", "code"} \subseteq ep_resp.keys
        /\ ep_resp.status \in {400, 404, 500}

\* C16: a voice-modification request with a transcription that is not blank
\* and holds none of the command phrases, and with a current code that is
\* not empty, fails with UNKNOWN_INTENT, and the LLM is not invoked for it.
C16_UnknownIntent ==
    (/\ ep_pc = "done"
     /\ ep_name = "voice-modification"
     /\ HasText
     /\ ep_req.currentCode.kind = "string" /\ Len(ep_req.currentCode.str) > 0
     /\ extract_intent(ep_req.text.str) = "unknown") =>
        /\ ep_resp.code = "UNKNOWN_INTENT"
        /\ llm_calls = 0

\* C17: a generate request with a prompt that is not blank invokes the LLM
\* exactly once, whether the invocation succeeds or fails; a request with
\* no prompt is rejected with MISSING_PROMPT and no LLM invocation.
C17_OneLlmCall ==
    (ep_pc = "done" /\ ep_name = "generate") =>
        /\ HasText => llm_calls = 1
        /\ (ep_req.text.kind = "absent" \/ (ep_req.text.kind = "string"
                                             /\ Len(ep_req.text.str) = 0)) =>
              (ep_resp.code = "MISSING_PROMPT" /\ llm_calls = 0)

\* the document has a <style ...> tag
Styled(d) == Contains(d, "<style>") \/ Contains(d, "<style media>")

\* C18: the code of every successful generate response has a <style> block;
\* when the cleaned LLM output has none, the default stylesheet stands
\* immediately before </head>.
C18_StyleBlock ==
    (ep_pc = "done" /\ ep_name = "generate" /\ ep_resp.status = 200) =>
        /\ Styled(ep_resp.body)
        /\ ~Styled(h_cleaned) =>
              \E i \in 1..(Len(ep_resp.body) - 4) :
                  SubSeq(ep_resp.body, i, i + 4) =
                      <<"<style>", "default_styles", "</style>", "NL", "</head>">>

\* the pieces of a prompt that are the given field
FieldPieces(field) ==
    CASE field = "action" -> {"Action: remove", "action: MODIFY"}
      [] field = "target" -> {"Target: Hero"}
      [] field = "content" -> {"Content: \"hi\"", "Content: \"Action: remove\""}
      [] field = "style" -> {"Style: {}", "Style: {\"animation\": \"fade\"}",
                             "Style: {color: red}", "Style: {\"font\": {\"size\": 2}}"}
      [] OTHER -> {"Icon: star"}

DefaultIntent ==
    [action |-> "add", target |-> "custom", content |-> "", style |-> "{}",
     icon |-> "None"]

\* C19: for every structured prompt, each field of the ModificationIntent
\* that the prompt does not hold takes its default (action add, target
\* custom, content '', style {}, icon none) whatever the other fields are,
\* and the request goes on to the generation with those values.
C19_IntentDefaults ==
    (ep_pc = "done" /\ ep_name = "generate" /\ HasText) =>
        /\ llm_calls = 1
        /\ \A field \in DOMAIN DefaultIntent :
              Range(ep_req.text.str) \cap FieldPieces(field) = {} =>
                  ep_intent[field] = DefaultIntent[field]

(***************************************************************************)
(* POST /api/transcribe and its two temporary files                        *)
(***************************************************************************)
\* max_retries = 3
max_retries == 3

\* audio_file.filename.lower().endswith(('.webm', '.wav', '.mp3', '.m4a'))
SupportedFormat(filename) == filename \in {"a.webm", "A.WAV", "a.mp3", "a.m4a"}

\* the finally block with the removal of the temporary upload only
CleanupUploadOnly(files, temp_file_path, wav_path) ==
    files \ (IF temp_file_path THEN {"temp"} ELSE {})

\* the finally block: os.remove of each path that is set and exists
Cleanup(files, temp_file_path, wav_path) ==
    (files \ (IF temp_file_path THEN {"temp"} ELSE {}))
        \ (IF wav_path THEN {"wav"} ELSE {})

TrInit ==
    /\ tr_req \in [has_audio : BOOLEAN,
                   filename : {"a.webm", "A.WAV", "a.mp3", "a.m4a", "a.txt", "a"},
                   size : {0, 1}]
    /\ tr_pc = "received"
    /\ tr_temp_file_path = FALSE
    /\ tr_wav_path = FALSE
    /\ tr_files = {}
    /\ tr_attempt = 0
    /\ tr_resp = [status |-> 0, code |-> "none"]
    /\ h_created = {}
    /\ h_heard = <<>>

TrIdle ==
    /\ tr_req = [has_audio |-> FALSE, filename |-> "a", size |-> 0]
    /\ tr_pc = "idle"
    /\ tr_temp_file_path = FALSE
    /\ tr_wav_path = FALSE
    /\ tr_files = {}
    /\ tr_attempt = 0
    /\ tr_resp = [status |-> 0, code |-> "none"]
    /\ h_created = {}
    /\ h_heard = <<>>

\* a return (or a caught exception) inside the try block: the response is
\* chosen and the finally block is next
TrReturn(status, code) ==
    /\ tr_resp' = [status |-> status, code |-> code]
    /\ tr_pc' = "finally"

\* the validation of the upload and its copy to a temporary file
TranscribeReceive ==
    /\ tr_pc = "received"
    /\ IF ~tr_req.has_audio
       THEN /\ TrReturn(400, "MISSING_AUDIO_FILE")
            /\ UNCHANGED <<tr_temp_file_path, tr_files, h_created>>
       ELSE IF ~SupportedFormat(tr_req.filename)
       THEN /\ TrReturn(400, "UNSUPPORTED_FORMAT")
            /\ UNCHANGED <<tr_temp_file_path, tr_files, h_created>>
       ELSE \E made, saved \in BOOLEAN :
               IF ~made
               THEN \* tempfile.NamedTemporaryFile raises
                    /\ TrReturn(500, "TRANSCRIBE_FAILED")
                    /\ UNCHANGED <<tr_temp_file_path, tr_files, h_created>>
               ELSE /\ tr_temp_file_path' = TRUE
                    /\ tr_files' = tr_files \cup {"temp"}
                    /\ h_created' = h_created \cup {"temp"}
                    /\ IF ~saved THEN TrReturn(500, "TRANSCRIBE_FAILED")
                       ELSE IF tr_req.size = 0 THEN TrReturn(400, "EMPTY_AUDIO_FILE")
                       ELSE tr_pc' = "load" /\ UNCHANGED tr_resp
    /\ UNCHANGED <<tr_req, tr_wav_path, tr_attempt, h_heard>>
    /\ UNCHANGED notTr

\* AudioSegment.from_file, then wav_path is set
TranscribeLoad ==
    /\ tr_pc = "load"
    /\ \E loaded \in BOOLEAN :
          IF loaded THEN tr_wav_path' = TRUE /\ tr_pc' = "export" /\ UNCHANGED tr_resp
          ELSE TrReturn(500, "PROCESS_AUDIO_FAILED") /\ UNCHANGED tr_wav_path
    /\ UNCHANGED <<tr_req, tr_temp_file_path, tr_files, tr_attempt, h_created, h_heard>>
    /\ UNCHANGED notTr

\* audio.export(wav_path, format='wav') and the test of its result: the
\* export may raise with or without a file left behind, or leave no usable
\* file
TranscribeExport ==
    /\ tr_pc = "export"
    /\ \E exported \in {"ok", "raise", "empty"}, written \in BOOLEAN :
          /\ exported = "ok" => written
          /\ tr_files' = tr_files \cup (IF written THEN {"wav"} ELSE {})
          /\ h_created' = h_created \cup (IF written THEN {"wav"} ELSE {})
          /\ IF exported = "ok" THEN tr_pc' = "recognize" /\ UNCHANGED tr_resp
             ELSE TrReturn(500, "CONVERT_AUDIO_FAILED")
    /\ UNCHANGED <<tr_req, tr_temp_file_path, tr_wav_path, tr_attempt, h_heard>>
    /\ UNCHANGED notTr

\* the test with the attempt before the last taken for the last
LastAttemptEarly(attempt) == attempt = max_retries - 2

\* if attempt == max_retries - 1
LastAttempt(attempt) == attempt = max_retries - 1

\* one turn of the loop 'for attempt in range(max_retries)'
TranscribeRecognize ==
    /\ tr_pc = "recognize"
    /\ tr_attempt < max_retries
    /\ \E heard \in {"text", "no data", "UnknownValueError", "RequestError", "OSError"} :
          /\ h_heard' = Append(h_heard, heard)
          /\ LET last == LastAttempt(tr_attempt)
                 again == tr_attempt' = tr_attempt + 1 /\ UNCHANGED <<tr_pc, tr_resp>>
                 return(status, code) == TrReturn(status, code) /\ UNCHANGED tr_attempt
             IN CASE heard = "text" -> return(200, "none")
                  [] heard = "no data" -> return(400, "NO_AUDIO_DATA")
                  [] heard = "UnknownValueError" ->
                        IF last THEN return(400, "TRANSCRIBE_FAILED") ELSE again
                  [] heard = "RequestError" ->
                        IF last THEN return(500, "API_REQUEST_FAILED") ELSE again
                  [] OTHER -> return(500, "TRANSCRIBE_FAILED")
    /\ UNCHANGED <<tr_req, tr_temp_file_path, tr_wav_path, tr_files, h_created>>
    /\ UNCHANGED notTr

\* the finally block, after which the response leaves the handler
TranscribeFinally ==
    /\ tr_pc = "finally"
    /\ tr_files' = Cleanup(tr_files, tr_temp_file_path, tr_wav_path)
    /\ tr_pc' = "done"
    /\ UNCHANGED <<tr_req, tr_temp_file_path, tr_wav_path, tr_attempt, tr_resp, h_created,
                   h_heard>>
    /\ UNCHANGED notTr

NextTranscribe ==
    TranscribeReceive \/ TranscribeLoad \/ TranscribeExport \/ TranscribeRecognize
        \/ TranscribeFinally

Retried(heard) == heard \in {"UnknownValueError", "RequestError"}

\* C28: in one transcribe request speech recognition is attempted at most 3
\* times, one after the other: the text is returned at the first successful
\* attempt with no further attempt, and a could-not-understand or
\* recognition-request failure is reported to the client only after the
\* third failed attempt.
C28_AtMostThreeAttempts ==
    /\ Len(h_heard) <= max_retries
    /\ Len(h_heard) = tr_attempt + (IF tr_pc \in {"finally", "done"} /\ Len(h_heard) > 0
                                    THEN 1 ELSE 0)
    /\ \A i \in 1..(Len(h_heard) - 1) : Retried(h_heard[i])
    /\ (Len(h_heard) > 0 /\ h_heard[Len(h_heard)] = "text") =>
          (tr_pc \in {"finally", "done"} /\ tr_resp.status = 200)
    /\ tr_resp.status = 200 => h_heard[Len(h_heard)] = "text"
    /\ (tr_resp.code = "API_REQUEST_FAILED"
          \/ (tr_resp.code = "TRANSCRIBE_FAILED" /\ tr_resp.status = 400)) =>
          /\ Len(h_heard) = max_retries
          /\ \A i \in 1..Len(h_heard) : Retried(h_heard[i])

\* a request whose third attempt, after two failures, returned the text
C28_Witness ==
    /\ tr_pc = "done"
    /\ h_heard = <<"UnknownValueError", "RequestError", "text">>
    /\ tr_resp.status = 200

(***************************************************************************)
(* Two save-page requests for one page path, served by two threads         *)
(***************************************************************************)
\* the two requests
Writers == {1, 2}

\* the codes of the requests, as sequences of bytes
RaceCodes == {<<"a1">>, <<"a1", "a2">>, <<"b1", "b2">>, <<"b1", "b2", "b3">>}

\* os.write of a buffer at offset 0 of a file that holds content: the bytes
\* beyond the buffer stay
WriteAtStart(content, buffer) ==
    buffer \o SubSeq(content, Len(buffer) + 1, Len(content))

SvInit ==
    /\ sv_code \in [Writers -> RaceCodes]
    /\ sv_pc = [w \in Writers |-> "open"]
    /\ sv_file \in {<<>>, <<"o1", "o2", "o3", "o4">>}
    /\ sv_status = [w \in Writers |-> 0]

SvIdle ==
    /\ sv_code = [w \in Writers |-> <<>>]
    /\ sv_pc = [w \in Writers |-> "idle"]
    /\ sv_file = <<>>
    /\ sv_status = [w \in Writers |-> 0]

\* open(absolute_path, 'w', encoding='utf-8'): the file is truncated and
\* the writer's own file offset is 0
SaveOpen(w) ==
    /\ sv_pc[w] = "open"
    /\ sv_file' = <<>>
    /\ sv_pc' = [sv_pc EXCEPT ![w] = "write"]
    /\ UNCHANGED <<sv_code, sv_status>>
    /\ UNCHANGED notSv

\* f.write(updated_code) and the end of the with block: the buffered text
\* reaches the file in one os.write at the writer's offset
SaveWrite(w) ==
    /\ sv_pc[w] = "write"
    /\ sv_file' = WriteAtStart(sv_file, sv_code[w])
    /\ sv_pc' = [sv_pc EXCEPT ![w] = "respond"]
    /\ UNCHANGED <<sv_code, sv_status>>
    /\ UNCHANGED notSv

\* return jsonify({'message': ..., 'pagePath': ...})
SaveRespond(w) ==
    /\ sv_pc[w] = "respond"
    /\ sv_status' = [sv_status EXCEPT ![w] = 200]
    /\ sv_pc' = [sv_pc EXCEPT ![w] = "done"]
    /\ UNCHANGED <<sv_code, sv_file>>
    /\ UNCHANGED notSv

NextRace == \E w \in Writers : SaveOpen(w) \/ SaveWrite(w) \/ SaveRespond(w)

\* C20: last write wins: after two concurrent save-page requests for one
\* page path have both completed successfully, under every interleaving of
\* their open/truncate and write steps, the stored document is exactly the
\* code of one of the two requests, never a mixture or an empty file.
C20_LastWriteWins ==
    (\A w \in Writers : sv_pc[w] = "done" /\ sv_status[w] = 200) =>
        \E w \in Writers : sv_file = sv_code[w]

(***************************************************************************)
(* POST /api/add-image                                                     *)
(* A document is the sequence of its <img> tags, a tag its src and its alt *)
(* text; the documents of the model hold no background-image.              *)
(***************************************************************************)
\* the url of the except branches and of a falsy result
real_image == "/static/real_image.jpg"

\* r'(<img[^>]*src=["\'](https?://[^"\']*|)["\'][^>]*>)': the src is empty
\* or starts with http:// or https://
IsExternalOrEmpty(src) == src \in {"", "https://picsum/1", "https://pexels/1"}

\* r'(<img[^>]*src=["\']((?!http)(?!data:)[^"\']*\.(jpg|jpeg|png|webp|gif))["\'][^>]*>)'
IsLocalImage(src) ==
    src \in {"car.jpg", "/static/real_image.jpg", "/static/car.jpg",
             "/static//static/real_image.jpg"}

\* the most <img> tags of a submitted document
MaxImgs == 2

ImgTags ==
    [src : {"", "https://picsum/1", "car.jpg", "data:image/png"}, alt : {"", "cat"}]

Documents == UNION {[1..k -> ImgTags] : k \in 0..MaxImgs}

AiInit ==
    /\ ai_input \in {None} \cup {Some(d) : d \in Documents}
    /\ ai_code = ai_input.str
    /\ ai_pc = "received"
    /\ ai_tags = <<>>
    /\ ai_i = 0
    /\ ai_images = <<>>
    /\ h_rewrites = [i \in 1..Len(ai_input.str) |-> {}]

AiIdle ==
    /\ ai_input = None
    /\ ai_code = <<>>
    /\ ai_pc = "idle"
    /\ ai_tags = <<>>
    /\ ai_i = 0
    /\ ai_images = <<>>
    /\ h_rewrites = <<>>

\* the positions of the document that hold the tag
Occurrences(code, img_tag) == {i \in 1..Len(code) : code[i] = img_tag}

\* updated_code.replace(img_tag, new_img_tag, 1) with new_img_tag the tag
\* with its src set to real_img_url
ReplaceFirst(code, img_tag, real_img_url) ==
    IF Occurrences(code, img_tag) = {} THEN code
    ELSE [code EXCEPT ![Least(Occurrences(code, img_tag))].src = real_img_url]

\* the pass that rewrote a tag is noted at the position it rewrote
NoteRewrite(pass) ==
    LET at == Occurrences(ai_code, ai_tags[ai_i])
    IN h_rewrites' = IF at = {} THEN h_rewrites
                     ELSE [h_rewrites EXCEPT ![Least(at)] = @ \cup {pass}]

\* the handler up to the first loop: the test of currentCode, the tags
\* with an empty or external src
AddImageStart ==
    /\ ai_pc = "received"
    /\ IF ~Truthy(ai_input)
       THEN ai_pc' = "rejected" /\ UNCHANGED <<ai_tags, ai_i>>
       ELSE /\ ai_tags' = SelectSeq(ai_code, LAMBDA t : IsExternalOrEmpty(t.src))
            /\ ai_i' = 1
            /\ ai_pc' = "first"
    /\ UNCHANGED <<ai_input, ai_code, ai_images, h_rewrites>>
    /\ UNCHANGED notAi

\* one turn of the first loop: fetch_image finds an image, returns the
\* empty result or raises
AddImageFirst ==
    /\ ai_pc = "first"
    /\ ai_i <= Len(ai_tags)
    /\ \E real_img_url \in {"https://pexels/1", "", real_image} :
          /\ ai_images' = Append(ai_images, real_img_url)
          /\ ai_code' = ReplaceFirst(ai_code, ai_tags[ai_i], real_img_url)
    /\ NoteRewrite("first")
    /\ ai_i' = ai_i + 1
    /\ UNCHANGED <<ai_input, ai_pc, ai_tags>>
    /\ UNCHANGED notAi

\* the end of the first loop: the tags with a local image file as src are
\* looked up in the rewritten document
AddImageFindLocal ==
    /\ ai_pc = "first"
    /\ ai_i > Len(ai_tags)
    /\ ai_tags' = SelectSeq(ai_code, LAMBDA t : IsLocalImage(t.src))
    /\ ai_i' = 1
    /\ ai_pc' = "local"
    /\ UNCHANGED <<ai_input, ai_code, ai_images, h_rewrites>>
    /\ UNCHANGED notAi

\* the src of a local tag once its image is stored as static/<src>
StoredAs(src) ==
    CASE src = "car.jpg" -> "/static/car.jpg"
      [] src = "/static/real_image.jpg" -> "/static//static/real_image.jpg"
      [] OTHER -> real_image

\* one turn of the local loop: the image is fetched and stored under the
\* original file name, or a step of that raises
AddImageLocal ==
    /\ ai_pc = "local"
    /\ ai_i <= Len(ai_tags)
    /\ \E real_img_url \in {StoredAs(ai_tags[ai_i].src), real_image} :
          /\ ai_images' = Append(ai_images, real_img_url)
          /\ ai_code' = ReplaceFirst(ai_code, ai_tags[ai_i], real_img_url)
    /\ NoteRewrite("local")
    /\ ai_i' = ai_i + 1
    /\ UNCHANGED <<ai_input, ai_pc, ai_tags>>
    /\ UNCHANGED notAi

\* return jsonify({'code': updated_code, 'images': images_metadata})
AddImageRespond ==
    /\ ai_pc = "local"
    /\ ai_i > Len(ai_tags)
    /\ ai_pc' = "done"
    /\ UNCHANGED <<ai_input, ai_code, ai_tags, ai_i, ai_images, h_rewrites>>
    /\ UNCHANGED notAi

NextAddImage ==
    AddImageStart \/ AddImageFirst \/ AddImageFindLocal \/ AddImageLocal
        \/ AddImageRespond

\* C25: add-image processes each <img> tag of the submitted document at most
\* once: in every outcome of the image lookups (success, empty result,
\* exception) the images list of the response holds exactly one entry per
\* <img> tag of the input whose src is empty, external or a local image
\* file, and a tag rewritten by the first pass is not rewritten again by the
\* local-image pass.
C25_EachTagOnce ==
    ai_pc = "done" =>
        /\ Len(ai_images) =
              Cardinality({i \in 1..Len(ai_input.str) :
                              \/ IsExternalOrEmpty(ai_input.str[i].src)
                              \/ IsLocalImage(ai_input.str[i].src)})
        /\ \A i \in 1..Len(h_rewrites) : h_rewrites[i] # {"first", "local"}

\* the pages with their <img> tags of empty or external src taken out
NoImgTags(pages) == [i \in 1..Len(pages) |-> [pages[i] EXCEPT !.img = FALSE]]

\* C24: every image id an endpoint passes to fetch_image (add-image for img
\* tags, background images and local images; add-folder for page images)
\* ends in '_<decimal integer>', so the derivation of the base page never
\* fails, and an add-folder request whose pages can all be written is
\* answered 200 with every page stored, also when a page holds <img> tags
\* with an empty or external src.
C24_ImageIdsNumeric ==
    [][LET folder_path == PathJoin(static_dir, fs_req'.path)
           made == makedirs(folder_path, fs_dirs, fs_files)
       IN (/\ fs_n' = fs_n + 1
           /\ fs_req'.op = "add-folder"
           /\ Len(fs_req'.path) > 0
           /\ Len(fs_req'.pages) > 0
           /\ made # {<<"error">>}
           /\ WritePages(NoImgTags(fs_req'.pages), folder_path, made, fs_files).ok) =>
              /\ \A e \in ImageEndpoints \ {"add-folder"}, i \in 0..MaxImgs :
                     IsDecimal(ImageIdLast(e, i))
              /\ \A i \in 1..Len(fs_req'.pages) :
                     fs_req'.pages[i].img => IsDecimal(ImageIdLast("add-folder", i))
              /\ fs_resp'.status = 200
              /\ \A i \in 1..Len(fs_req'.pages) :
                     Locate(PageFile(folder_path, fs_req'.pages[i])) \in DOMAIN fs_files']_vars

(***************************************************************************)
(* POST /signup: two requests served at the same time                      *)
(***************************************************************************)
\* the two requests
Signers == {1, 2}

Emails == {"ann@x", "bob@x"}

NoAnswer == [status |-> 0, message |-> "none"]

SuInit ==
    /\ su_req \in [Signers -> [email : Emails \cup {""}, password : {"pw", ""}]]
    /\ su_pc = [w \in Signers |-> "find"]
    /\ su_resp = [w \in Signers |-> NoAnswer]
    /\ su_users \in {<<>>, <<"ann@x">>}

SuIdle ==
    /\ su_req = [w \in Signers |-> [email |-> "", password |-> ""]]
    /\ su_pc = [w \in Signers |-> "idle"]
    /\ su_resp = [w \in Signers |-> NoAnswer]
    /\ su_users = <<>>

\* User.find_user_by_email(email): mongo.db.users.find_one({"email": email})
find_user_by_email(users, email) == \E i \in 1..Len(users) : users[i] = email

\* User.create_user(email, password): mongo.db.users.insert_one(...)
create_user(users, email) == Append(users, email)

\* signup up to the answer of find_one: the test of the fields, the lookup
SignupFind(w) ==
    /\ su_pc[w] = "find"
    /\ IF su_req[w].email = "" \/ su_req[w].password = ""
       THEN /\ su_resp' = [su_resp EXCEPT ![w] =
                              [status |-> 400, message |-> "Email and password are required"]]
            /\ su_pc' = [su_pc EXCEPT ![w] = "done"]
       ELSE IF find_user_by_email(su_users, su_req[w].email)
       THEN /\ su_resp' = [su_resp EXCEPT ![w] =
                              [status |-> 400, message |-> "User already exists"]]
            /\ su_pc' = [su_pc EXCEPT ![w] = "done"]
       ELSE /\ su_pc' = [su_pc EXCEPT ![w] = "insert"]
            /\ UNCHANGED su_resp
    /\ UNCHANGED <<su_req, su_users>>
    /\ UNCHANGED notSu

\* the rest of signup: the password hash, insert_one, the answer
SignupInsert(w) ==
    /\ su_pc[w] = "insert"
    /\ su_users' = create_user(su_users, su_req[w].email)
    /\ su_resp' = [su_resp EXCEPT ![w] =
                      [status |-> 201, message |-> "User created successfully"]]
    /\ su_pc' = [su_pc EXCEPT ![w] = "done"]
    /\ UNCHANGED su_req
    /\ UNCHANGED notSu

NextSignup == \E w \in Signers : SignupFind(w) \/ SignupInsert(w)

\* C30: after any interleaving of concurrent signup requests the user store
\* holds at most one user per email: of two signups with the same email at
\* most one is answered 'User created successfully', and the other is
\* answered 'User already exists' with no user inserted.
C30_OneUserPerEmail ==
    /\ \A i, j \in 1..Len(su_users) : su_users[i] = su_users[j] => i = j
    /\ (/\ \A w \in Signers : su_pc[w] = "done" /\ su_resp[w].status # 0
        /\ su_req[1].email = su_req[2].email
        /\ su_req[1].email # ""
        /\ su_req[1].password # "" /\ su_req[2].password # "") =>
          /\ Cardinality({w \in Signers : su_resp[w].status = 201}) <= 1
          /\ \E w \in Signers : su_resp[w].message = "User already exists"

(***************************************************************************)
(* Claims about refine_query (checked under SpecRefine)                    *)
(***************************************************************************)
\* every keyword of the context-keyword table
TableKeywords == UNION {Range(context_keywords(k)) : k \in ContextKeys}

\* C10: for every query, page_name and folder_name, refine_query returns at
\* most 5 blank-separated tokens, none repeated, each a lowercased word of
\* the query or a keyword of the context-keyword table, and none of them a
\* stop-word.
C10_RefinedTokens ==
    rq_pc = "done" =>
        /\ rq_out.kind = "return"
        /\ LET tokens == Split(rq_out.val)
           IN /\ Len(tokens) <= MaxTokens
              /\ \A i, j \in 1..Len(tokens) : tokens[i] = tokens[j] => i = j
              /\ \A i \in 1..Len(tokens) :
                    /\ tokens[i] \in Range(Lower(Split(rq_query))) \cup TableKeywords
                    /\ tokens[i] \notin stop_words

\* the name selects no entry of the context-keyword table: absent, empty,
\* made of blanks only, or with a first word that is no key
Unmatched(name) ==
    \/ ~Truthy(name)
    \/ Len(Split(name.str)) = 0
    \/ Lower(Split(name.str))[1] \notin ContextKeys

\* C11: refine_query has no failure mode: for every query, page_name and
\* folder_name (absent, empty, blanks only, or naming no known context) it
\* returns a string without raising, and a name that matches no context key
\* leaves the result equal to the result without that name.
C11_NoFailureMode ==
    rq_pc = "done" =>
        /\ rq_out.kind = "return"
        /\ Unmatched(rq_page) => rq_out = refine_query(rq_query, None, rq_folder)
        /\ Unmatched(rq_folder) => rq_out = refine_query(rq_query, rq_page, None)

(***************************************************************************)
(* Specifications                                                          *)
(***************************************************************************)
\* the parts beside the first four, at rest
HiIdle == h_before = <<>>

LateIdle == HiIdle /\ AiIdle /\ SuIdle

MidIdle == CrIdle /\ EpIdle /\ TrIdle /\ SvIdle

MoreIdle == MidIdle /\ LateIdle

InitRefine == RqInit /\ FiIdle /\ FsIdle /\ CcIdle /\ MoreIdle

SpecRefine == InitRefine /\ [][RefineQuery]_vars

NextImage == FetchImageCall \/ SearchAttempt \/ SearchExhausted \/ FetchImageNext

InitImage == FiInit /\ RqIdle /\ FsIdle /\ CcIdle /\ MoreIdle

SpecImage == InitImage /\ [][NextImage]_vars

NextFiles == SavePageRequest \/ LivePreviewRequest \/ AddFolderRequest

InitFileTree == FsInit /\ RqIdle /\ FiIdle /\ CcIdle /\ MoreIdle

SpecFiles == InitFileTree /\ [][NextFiles]_vars

NextClean == CleanOnce \/ CleanAgain

InitClean == CcInit /\ RqIdle /\ FiIdle /\ FsIdle /\ MoreIdle

SpecClean == InitClean /\ [][NextClean]_vars

\* the first four parts at rest
CoreIdle == RqIdle /\ FiIdle /\ FsIdle /\ CcIdle

InitRelevance == CrInit /\ CoreIdle /\ EpIdle /\ TrIdle /\ SvIdle /\ LateIdle

SpecRelevance == InitRelevance /\ [][CheckRelevance]_vars
InitEndpoints == EpInit /\ CoreIdle /\ CrIdle /\ TrIdle /\ SvIdle /\ LateIdle

SpecEndpoints == InitEndpoints /\ [][NextEndpoints]_vars

InitTranscribe == TrInit /\ CoreIdle /\ CrIdle /\ EpIdle /\ SvIdle /\ LateIdle

SpecTranscribe == InitTranscribe /\ [][NextTranscribe]_vars

InitRace == SvInit /\ CoreIdle /\ CrIdle /\ EpIdle /\ TrIdle /\ LateIdle

SpecRace == InitRace /\ [][NextRace]_vars

InitAddImage == AiInit /\ CoreIdle /\ MidIdle /\ HiIdle /\ SuIdle

SpecAddImage == InitAddImage /\ [][NextAddImage]_vars

InitSignup == SuInit /\ CoreIdle /\ MidIdle /\ HiIdle /\ AiIdle

SpecSignup == InitSignup /\ [][NextSignup]_vars

InitHierarchy == HiInit /\ RqIdle /\ FiIdle /\ CcIdle /\ MidIdle /\ AiIdle /\ SuIdle

SpecHierarchy == InitHierarchy /\ [][UpdateHierarchyRequest]_vars
====
